---- MODULE Spec2Model ----
\* Daily-summary store and automated generator of InfoDash (src/server.js).
\*
\* The archive file daily-summaries.json is modelled by what the code can tell
\* apart: missing, empty text, text that is not JSON, or a JSON object keyed by
\* date whose values (buckets) are one record or an array of records.
\* Handlers are asynchronous: every `await` on the file or on the network is a
\* point where other handlers run, so a handler is a task with a program
\* counter and one action per stretch of code between two awaits.
EXTENDS Integers, Sequences, FiniteSets, Bags, TLC

\* ---------------------------------------------------------------- bounds
MaxDay == 2          \* calendar days (New York) the clock runs through
MaxContent == 2      \* summary texts produced in a run (the k-th text is k)
MaxTasks == 2        \* handlers in flight at the same time
MaxSymbols == 3      \* symbols in one bulk finance request

Days == 1..MaxDay

\* Regions (language, country) used by requests; the generator's region is en/US.
Regions == {<<"en", "US">>, <<"en", "GB">>}

VARIABLES
    file,                \* the archive file SUMMARY_FILE
    tasks,               \* handlers in flight (a bag: handlers have no identity)
    clock,               \* wall clock: New York day and position in the evening
    isGenerating,        \* AutomatedSummaryGenerator.isGenerating
    lastGenerationDate,  \* AutomatedSummaryGenerator.lastGenerationDate (0: null)
    loaded,              \* last answer of GET /api/summary/daily
    event,               \* what the last step did, as seen from outside
    hist,                \* what the run has done so far (not program state)
    browser,             \* the dashboard page (summary.js): DOM, localStorage, flags
    call                 \* the last call of a pure function: argument and result

vars == <<file, tasks, clock, isGenerating, lastGenerationDate, loaded, event, hist,
          browser, call>>

\* ---------------------------------------------------------------- records
\* JS null / undefined result of a lookup.
Null == [language |-> "", country |-> "", content |-> 0,
         day |-> 0, late |-> FALSE, automated |-> FALSE]

\* summaryWithMetadata: the data plus language, country, timestamp, automated.
\* The timestamp is kept as the New York day and whether the hour is >= 23.
summaryWithMetadata(content, language, country, automated, now) ==
    [language |-> language, country |-> country, content |-> content,
     day |-> now.day, late |-> now.slot >= 1, automated |-> automated]

\* A record written before language/country were stored: no tags.
LegacyRecord(content, day) ==
    [language |-> "", country |-> "", content |-> content,
     day |-> day, late |-> FALSE, automated |-> FALSE]

NoBucket == [shape |-> "none", recs |-> << >>]
EmptyArchive == [d \in Days |-> NoBucket]

MissingFile == [kind |-> "missing", data |-> EmptyArchive]
JsonFile(summaries) == [kind |-> "json", data |-> summaries]

\* ---------------------------------------------------------------- file access
\* fs.access: rejects when the file does not exist.
fsAccess(f) == f.kind # "missing"

\* fs.readFile followed by JSON.parse: throws when the file is missing, and
\* when its text is empty or is not JSON.
readAndParse(f) ==
    IF f.kind = "json" THEN [threw |-> FALSE, summaries |-> f.data]
    ELSE [threw |-> TRUE, summaries |-> EmptyArchive]

\* ---------------------------------------------------------------- saveDailySummary
\* "Read existing summaries": a failed read or parse starts from {}.
readExisting(f) ==
    LET r == readAndParse(f) IN IF r.threw THEN EmptyArchive ELSE r.summaries

sameRegion(summary, language, country) ==
    summary.language = language /\ summary.country = country

\* The update of summaries[date].
updateBucket(bucket, rec) ==
    IF bucket.shape = "none"
    THEN \* first summary for this date: stored as a single object
         [shape |-> "obj", recs |-> <<rec>>]
    ELSE IF bucket.shape = "arr"
         THEN \* remove the summary of the same language/country, then push
              [shape |-> "arr",
               recs |-> Append(SelectSeq(bucket.recs,
                           LAMBDA s : ~sameRegion(s, rec.language, rec.country)),
                           rec)]
         ELSE \* single object: converted to an array, nothing removed
              [shape |-> "arr", recs |-> <<bucket.recs[1], rec>>]

\* The archive saveDailySummary writes, from the archive it read.
savedArchive(summaries, rec, date) ==
    [summaries EXCEPT ![date] = updateBucket(summaries[date], rec)]

\* ---------------------------------------------------------------- loadDailySummary
firstMatch(recs, language, country) ==
    LET hits == {i \in 1..Len(recs) : sameRegion(recs[i], language, country)}
    IN IF hits = {} THEN Null
       ELSE recs[CHOOSE i \in hits : \A j \in hits : i <= j]

\* The lookup in the parsed archive (lines 356-388).
lookupSummary(summaries, date, language, country) ==
    LET dateSummary == summaries[date] IN
    IF dateSummary.shape = "none" THEN Null
    ELSE IF dateSummary.shape = "arr"
    THEN firstMatch(dateSummary.recs, language, country)
    ELSE LET s == dateSummary.recs[1] IN
         IF s.language # "" /\ s.country # ""
         THEN IF sameRegion(s, language, country) THEN s ELSE Null
         ELSE IF language = "en" /\ country = "US" THEN s ELSE Null

\* The body of the try block: an early return when fs.access rejects, otherwise
\* read, parse (either may throw) and look up.
loadBody(f, date, language, country) ==
    IF ~fsAccess(f) THEN [threw |-> FALSE, value |-> Null]
    ELSE LET r == readAndParse(f) IN
         IF r.threw THEN [threw |-> TRUE, value |-> Null]
         ELSE [threw |-> FALSE,
               value |-> lookupSummary(r.summaries, date, language, country)]

\* Variant of loadDailySummary without the outer catch.
loadDailySummaryNoCatch(f, date, language, country) ==
    loadBody(f, date, language, country)

\* loadDailySummary: the catch turns every exception into null.
loadDailySummary(f, date, language, country) ==
    LET b == loadBody(f, date, language, country) IN
    IF b.threw THEN [threw |-> FALSE, value |-> Null] ELSE b

\* ---------------------------------------------------------------- tasks
NoTriple == [date |-> 0, language |-> "", country |-> "", content |-> 0]

\* pc: where the handler is suspended. caller: who called saveDailySummary
\* ("http": POST /api/summary/save, "gen": generateSummaryForRegion), or
\* "manual" for a refreshSummary attempt in the page (attempt: retryCount,
\* lastError: the message of generateSummary's lastError, "" for null).
\* origin: what invoked generateDailySummary. attempt: the loop variable of
\* generateAutomatedSummary. snapshot: `summaries` as read by saveDailySummary.
\* model: the model named in the completion call in flight.
NewTask == [pc |-> "", caller |-> "", origin |-> "", date |-> 0,
            language |-> "", country |-> "", content |-> 0, attempt |-> 0,
            snapshot |-> EmptyArchive, lastError |-> "", model |-> ""]

tripleOf(t) == [date |-> t.date, language |-> t.language,
                country |-> t.country, content |-> t.content]

Running == BagToSet(tasks)
HasRoom == BagCardinality(tasks) < MaxTasks
Without(t) == tasks (-) SetToBag({t})
With(bag, t) == bag (+) SetToBag({t})

\* The handlers that are inside a generateDailySummary pass, and their number.
PassTasks == {t \in Running : t.caller = "gen"}
PassCount == BagCardinality([t \in PassTasks |-> tasks[t]])

\* A network address: a dotted IPv4 address or an IPv6 address, possibly written
\* as an IPv4-mapped IPv6 address ('::ffff:' followed by the IPv4 address).
NoAddress == [mapped |-> FALSE, addr |-> ""]

\* ---------------------------------------------------------------- observations
\* type "trigger": generateDailySummary was invoked (origin) on `day`, with
\*   result "busy" | "memo" | "started", or a checkpoint skipped it ("late").
\* type "passEnd": a pass for date `day` ended, result "saved" | "savefail" |
\*   "exists" | "insufficient" | "invalid" | "llmfail".
\* type "collected": a pass went on to the LLM with the data `news`, `finance`.
\* type "saved" | "savefail": POST /api/summary/save answered.
\* type "manual": a step of refreshSummary in the page; origin "racing" while
\*   refreshSummary awaits the attempt, "abandoned" after its timeout; result
\*   "limit" | "started" | "chatSent" | "retry" | "saveSent" | "saved" |
\*   "savefail" | "listed" | "success" | "genfail" | "timeout"; text: the summary text the
\*   attempt has generated (0: none); notice: the notification it showed;
\*   remote: the peer address of the connection of an admin request.
\* responses: what /api/trends2 answered to the requests of one collection.
\* model: the model a request to POST /api/chat named; delay: the wait in ms
\* that a failed attempt started.
\* saved: the triple a save wrote; again: the archive it had read held a record
\* tagged with that triple; raced: the triple of a save that wrote the archive
\* between this save's read and its write.
NoEvent == [type |-> "", origin |-> "", day |-> 0, result |-> "",
            saved |-> NoTriple, again |-> FALSE, raced |-> NoTriple,
            news |-> "", finance |-> "", trends |-> "", text |-> 0,
            notice |-> "", remote |-> NoAddress, model |-> "", delay |-> 0,
            responses |-> << >>]

TriggerEvent(origin, day, result) ==
    [NoEvent EXCEPT !.type = "trigger", !.origin = origin, !.day = day,
                    !.result = result]

PassEndEvent(t, outcome) ==
    [NoEvent EXCEPT !.type = "passEnd", !.origin = t.origin, !.day = t.date,
                    !.result = outcome]

NoLoad == [date |-> 0, language |-> "", country |-> "",
           threw |-> FALSE, value |-> Null]

\* No pure function has been called.
NoCall == [fn |-> ""]

\* The page as loaded (summary.js module state and DOM), on a production host
\* or on localhost. marker: localStorage.lastSummaryRefreshDate (0: not set).
\* display: the summary text whose sections are shown (0: the placeholder,
\* -1: "No summary exists for the selected date."). The notification bar
\* hides by itself: what a step shows in it is in event.notice.
\* Of the controls the date input is kept (dateDisabled); the refresh button,
\* which setControlsDisabled writes 500 ms later, is left out.
\* successDay: the last day a refresh announced success (not program state).
\* modelSelect: the value of the element 'model-select' ("": no value).
PageLoaded(localhost) ==
    [localhost |-> localhost, marker |-> 0, summaryGenerated |-> FALSE,
     loading |-> FALSE, dateDisabled |-> FALSE, display |-> 0, successDay |-> 0,
     modelSelect |-> ""]

\* ---------------------------------------------------------------- initial state
LegacyArchive ==
    [EmptyArchive EXCEPT ![1] = [shape |-> "obj", recs |-> <<LegacyRecord(1, 1)>>]]

InitialFiles ==
    {MissingFile,
     [kind |-> "empty", data |-> EmptyArchive],
     [kind |-> "corrupt", data |-> EmptyArchive],
     JsonFile(EmptyArchive),
     JsonFile(LegacyArchive)}

\* hist.fresh: the run started from a missing or empty archive.
\* hist.texts: summary texts produced so far. hist.staleWrite: some save wrote
\* an archive computed from a read that was no longer current.
\* hist.autoSaved[d]: an automated pass for date d has written the store.
\* hist.failDay: the date of the last pass whose LLM calls all failed.
InitWith(files) ==
    /\ file \in files
    /\ tasks = EmptyBag
    /\ clock = [day |-> 1, slot |-> 0]
    /\ isGenerating = FALSE
    /\ lastGenerationDate = 0
    /\ loaded = NoLoad
    /\ event = NoEvent
    /\ browser = PageLoaded(FALSE)
    /\ call = NoCall
    /\ hist = [fresh |-> file.kind \in {"missing", "empty"} \/ file = JsonFile(EmptyArchive),
               texts |-> 0,
               staleWrite |-> FALSE,
               autoSaved |-> [d \in Days |-> FALSE],
               failDay |-> 0]

Init == InitWith(InitialFiles)

\* ---------------------------------------------------------------- store handlers
\* POST /api/summary/save with a date and some content: builds summaryData and
\* calls saveDailySummary, here up to the end of its `await fs.readFile` (the
\* request changes nothing before that, so its arrival is not a step of its own).
SaveRequest(date, language, country) ==
    /\ HasRoom
    /\ hist.texts < MaxContent
    /\ tasks' = With(tasks, [NewTask EXCEPT !.pc = "saveWrite", !.caller = "http",
                                            !.date = date, !.language = language,
                                            !.country = country,
                                            !.content = hist.texts + 1,
                                            !.snapshot = readExisting(file)])
    /\ hist' = [hist EXCEPT !.texts = @ + 1]
    /\ event' = NoEvent
    /\ UNCHANGED <<file, clock, isGenerating, lastGenerationDate, loaded, browser, call>>

\* saveDailySummary called by generateSummaryForRegion, `await fs.readFile`:
\* the archive as it is now.
SaveRead(t) ==
    /\ t.pc = "saveRead"
    /\ tasks' = With(Without(t), [t EXCEPT !.pc = "saveWrite",
                                           !.snapshot = readExisting(file)])
    /\ event' = NoEvent
    /\ UNCHANGED <<file, clock, isGenerating, lastGenerationDate, loaded, browser, call, hist>>

\* Variant of flagAfterPass that leaves the flag as it is.
flagAfterPassKept(generating) == generating

\* generateDailySummary, finally { this.isGenerating = false }.
flagAfterPass(generating) == FALSE

\* saveDailySummary has returned to its caller. For generateSummaryForRegion
\* (which catches every exception) that is the end of the pass:
\* generateDailySummary sets the memo and clears the flag.
AfterSave(t) ==
    /\ tasks' = Without(t)
    /\ IF t.caller = "http"
       THEN UNCHANGED <<isGenerating, lastGenerationDate>>
       ELSE /\ lastGenerationDate' = t.date
            /\ isGenerating' = flagAfterPass(isGenerating)

taggedFor(summaries, date, language, country) ==
    \E k \in 1..Len(summaries[date].recs) :
        sameRegion(summaries[date].recs[k], language, country)

\* The triples (with the content) of the tagged records of an archive.
RecordsOf(summaries) ==
    UNION {{[date |-> d, language |-> summaries[d].recs[k].language,
             country |-> summaries[d].recs[k].country,
             content |-> summaries[d].recs[k].content] :
              k \in {j \in 1..Len(summaries[d].recs) :
                       summaries[d].recs[j].language # ""}} : d \in Days}

\* saveDailySummary, from the parsed archive to the end of `await fs.writeFile`:
\* the bucket of the date is updated in the archive that was read, and the whole
\* archive is written back.
SaveWrite(t) ==
    LET rec == summaryWithMetadata(t.content, t.language, t.country,
                                   t.caller = "gen", clock)
        me == tripleOf(t)
        \* records of other triples written since this save read the archive
        since == {x \in RecordsOf(readExisting(file)) \ RecordsOf(t.snapshot) :
                    <<x.date, x.language, x.country>>
                      # <<t.date, t.language, t.country>>}
    IN
    /\ t.pc = "saveWrite"
    /\ file' = JsonFile(savedArchive(t.snapshot, rec, t.date))
    /\ hist' = [hist EXCEPT
                  !.staleWrite = @ \/ (t.snapshot # readExisting(file)),
                  !.autoSaved[t.date] = @ \/ (t.caller = "gen")]
    /\ event' = [NoEvent EXCEPT
                   !.type = IF t.caller = "gen" THEN "passEnd" ELSE "saved",
                   !.origin = t.origin, !.day = t.date, !.result = "saved",
                   !.saved = me,
                   !.again = taggedFor(t.snapshot, t.date, t.language, t.country),
                   !.raced = IF since = {} THEN NoTriple
                             ELSE CHOOSE x \in since :
                                    \A y \in since : x.content <= y.content]
    /\ AfterSave(t)
    /\ UNCHANGED <<clock, loaded, browser, call>>

\* saveDailySummary when fs.writeFile (or mkdir) rejects: caught, returns false.
SaveWriteFails(t) ==
    /\ t.pc = "saveWrite"
    /\ event' = [NoEvent EXCEPT
                   !.type = IF t.caller = "gen" THEN "passEnd" ELSE "savefail",
                   !.origin = t.origin, !.day = t.date, !.result = "savefail"]
    /\ AfterSave(t)
    /\ UNCHANGED <<file, clock, loaded, browser, call, hist>>

\* GET /api/summary/daily: answers with loadDailySummary(date, language, country).
LoadRequest(date, language, country) ==
    /\ loaded' = [date |-> date, language |-> language, country |-> country]
                 @@ loadDailySummary(file, date, language, country)
    /\ event' = NoEvent
    /\ UNCHANGED <<file, tasks, clock, isGenerating, lastGenerationDate, hist,
                   browser, call>>

\* ---------------------------------------------------------------- generator
\* The server's clock is taken to be UTC, so that todayEDT (the date part of
\* nyDate.toISOString()) is the New York calendar date.
maxRetries == 3

\* generateAutomatedSummary: const selectedModel, named in every call.
selectedModel == "z-ai/glm-4.5-air:free"

\* Variant of the guard without the isGenerating test.
passGuardNoFlag(generating, memo, today) ==
    IF memo = today THEN "memo" ELSE "started"

\* Variant of the guard without the lastGenerationDate test.
passGuardNoMemo(generating, memo, today) ==
    IF generating THEN "busy" ELSE "started"

\* generateDailySummary, lines 511-525: the two early returns.
passGuard(generating, memo, today) ==
    IF generating THEN "busy"
    ELSE IF memo = today THEN "memo"
    ELSE "started"

\* generateDailySummary up to its first await (the fs.access of
\* loadDailySummary inside generateSummaryForRegion). others: the handlers in
\* flight apart from the invoking one. remote: the peer address when an admin
\* request caused the call.
generateDailySummaryFrom(others, origin, remote) ==
    LET today == clock.day
        g == passGuard(isGenerating, lastGenerationDate, today)
    IN
    /\ event' = [TriggerEvent(origin, today, g) EXCEPT !.remote = remote]
    /\ UNCHANGED <<lastGenerationDate, hist>>
    /\ IF g = "started"
       THEN /\ BagCardinality(others) < MaxTasks
            /\ isGenerating' = TRUE
            /\ tasks' = With(others,
                          [NewTask EXCEPT !.pc = "genExists", !.caller = "gen",
                                          !.origin = origin, !.date = today,
                                          !.language = "en", !.country = "US"])
       ELSE /\ tasks' = others
            /\ UNCHANGED isGenerating

generateDailySummary(others, origin) ==
    generateDailySummaryFrom(others, origin, NoAddress)

\* cron '0 23 * * *': calls generateDailySummary.
Cron23 ==
    /\ clock.slot = 0
    /\ clock' = [clock EXCEPT !.slot = 1]
    /\ generateDailySummary(tasks, "cron23")
    /\ UNCHANGED <<file, loaded, browser, call>>

\* cron '5 23', '30 23', '50 23': tryGenerateIfNoPost11pmSummary up to its
\* await of loadDailySummary; todayEDT and nyDate are taken before the await.
Checkpoint ==
    /\ clock.slot \in 1..3
    /\ HasRoom
    /\ clock' = [clock EXCEPT !.slot = @ + 1]
    /\ tasks' = With(tasks, [NewTask EXCEPT !.pc = "chkLoad",
                                            !.origin = "checkpoint",
                                            !.date = clock.day])
    /\ event' = NoEvent
    /\ UNCHANGED <<file, isGenerating, lastGenerationDate, loaded, browser, call, hist>>

\* The day ends.
Midnight ==
    /\ clock.slot = 4
    /\ clock.day < MaxDay
    /\ clock' = [day |-> clock.day + 1, slot |-> 0]
    /\ event' = NoEvent
    /\ UNCHANGED <<file, tasks, isGenerating, lastGenerationDate, loaded, browser, call, hist>>

\* Variant of the checkpoint's test that never finds a late summary.
generatedAfter11pmNever(summary, nyDay) == FALSE

\* The checkpoint's test (lines 454-466): a summary of today for en/US whose
\* timestamp, in New York, is on today's date at hour 23 or later.
generatedAfter11pm(summary, nyDay) ==
    summary # Null /\ summary.day = nyDay /\ summary.late

\* tryGenerateIfNoPost11pmSummary after the load: skip, or generateDailySummary.
ChkGuard(t) ==
    LET summary == loadDailySummary(file, t.date, "en", "US").value IN
    /\ t.pc = "chkLoad"
    /\ IF generatedAfter11pm(summary, t.date)
       THEN /\ tasks' = Without(t)
            /\ event' = TriggerEvent("checkpoint", clock.day, "late")
            /\ UNCHANGED <<isGenerating, lastGenerationDate, hist>>
       ELSE generateDailySummary(Without(t), "checkpoint")
    /\ UNCHANGED <<file, clock, loaded, browser, call>>

\* A request to an admin endpoint: the peer address of its connection and its
\* X-Forwarded-For header (NoAddress: no header).
LocalAddress == [mapped |-> FALSE, addr |-> "127.0.0.1"]
OutsideAddress == [mapped |-> FALSE, addr |-> "203.0.113.9"]

AdminRequests ==
    [peer : {LocalAddress, [LocalAddress EXCEPT !.mapped = TRUE],
             OutsideAddress, [OutsideAddress EXCEPT !.mapped = TRUE]},
     forwardedFor : {NoAddress, LocalAddress, OutsideAddress}]

\* A request made on the server's own host.
LocalRequest == [peer |-> LocalAddress, forwardedFor |-> NoAddress]

\* ADMIN_IPS without the environment variable.
ADMIN_IPS == {LocalAddress, [mapped |-> FALSE, addr |-> "::1"]}

\* req.ip under app.set('trust proxy', true): the leftmost address of
\* X-Forwarded-For when the header is there, else the peer address.
reqIp(req) ==
    IF req.forwardedFor # NoAddress THEN req.forwardedFor ELSE req.peer

\* ip.replace(/^::ffff:/, '')
normalizeIP(ip) == [ip EXCEPT !.mapped = FALSE]

\* adminOnly: next() is called.
adminOnly(req) == normalizeIP(reqIp(req)) \in ADMIN_IPS

\* adminOnly answers 403.
AccessDenied(req) ==
    /\ event' = [NoEvent EXCEPT !.type = "admin", !.result = "403",
                                !.remote = req.peer]
    /\ UNCHANGED <<tasks, isGenerating, lastGenerationDate, hist>>

\* POST /api/summary/trigger-automated: adminOnly, then "already in progress"
\* when isGenerating, otherwise triggerManualGeneration, which calls
\* generateDailySummary.
AdminTrigger(req) ==
    /\ IF ~adminOnly(req)
       THEN AccessDenied(req)
       ELSE IF isGenerating
       THEN /\ event' = [TriggerEvent("admin", clock.day, "busy") EXCEPT
                           !.remote = req.peer]
            /\ UNCHANGED <<tasks, isGenerating, lastGenerationDate, hist>>
       ELSE generateDailySummaryFrom(tasks, "admin", req.peer)
    /\ UNCHANGED <<file, clock, loaded, browser, call>>

\* GET /api/summary/automation-status: adminOnly, then getStatus.
AutomationStatus(req) ==
    /\ IF ~adminOnly(req)
       THEN AccessDenied(req)
       ELSE /\ event' = [NoEvent EXCEPT !.type = "admin", !.result = "status",
                                        !.remote = req.peer]
            /\ UNCHANGED <<tasks, isGenerating, lastGenerationDate, hist>>
    /\ UNCHANGED <<file, clock, loaded, browser, call>>

\* A pass ends without a call of saveDailySummary: generateSummaryForRegion
\* returns, generateDailySummary sets the memo and clears the flag.
PassEndsWith(t, outcome) ==
    /\ tasks' = Without(t)
    /\ lastGenerationDate' = t.date
    /\ isGenerating' = flagAfterPass(isGenerating)
    /\ event' = PassEndEvent(t, outcome)
    /\ hist' = [hist EXCEPT
                  !.failDay = IF outcome = "llmfail" THEN t.date ELSE @]

\* generateSummaryForRegion, lines 548-553: skip when a summary exists.
skipsExisting(existingSummary) == existingSummary # Null

GenCheckExisting(t) ==
    LET existingSummary == loadDailySummary(file, t.date, t.language, t.country).value
    IN
    /\ t.pc = "genExists"
    /\ IF skipsExisting(existingSummary)
       THEN PassEndsWith(t, "exists")
       ELSE /\ tasks' = With(Without(t), [t EXCEPT !.pc = "genCollect"])
            /\ event' = NoEvent
            /\ UNCHANGED <<isGenerating, lastGenerationDate, hist>>
    /\ UNCHANGED <<file, clock, loaded, browser, call>>

\* What the collectors return: news is a non-empty list or null; finance is
\* null or the object {nasdaq, techStocks, crypto}, with or without quotes.
NewsOutcomes == {"absent", "some"}
FinanceOutcomes == {"absent", "noquotes", "quotes"}
TrendsOutcomes == {"absent", "some"}

\* Lines 566-567: (!news || news.length === 0) &&
\* (!finance || Object.keys(finance).length === 0). The finance object always
\* has its three keys.
coreDataInsufficient(news, finance) ==
    news = "absent" /\ finance = "absent"

\* collectAutomatedTrendsData: const maxRetries = 2.
trendsMaxRetries == 2

\* What GET /api/trends2 can answer: a non-OK status, a payload without
\* default.trendingSearchesDays, a failure that throws (network, JSON), or a
\* payload with topics.
TrendsResponses == {"notok", "empty", "throws", "topics"}

\* What the endpoint answers to the first, second and third request.
TrendsAnswers == [1..(trendsMaxRetries + 1) -> TrendsResponses]

\* Variant of trendsRetryLeft that never retries.
trendsRetryNever(retryCount) == FALSE

\* if (retryCount < maxRetries), the same test in the three failure branches.
trendsRetryLeft(retryCount) == retryCount < trendsMaxRetries

\* collectAutomatedTrendsData(region, retryCount): the value returned and the
\* number of requests issued from this call on.
RECURSIVE collectAutomatedTrendsData(_, _)
collectAutomatedTrendsData(answers, retryCount) ==
    IF answers[retryCount + 1] = "topics"
    THEN [trends |-> "some", requests |-> 1]
    ELSE IF trendsRetryLeft(retryCount)
    THEN LET later == collectAutomatedTrendsData(answers, retryCount + 1)
         IN  [later EXCEPT !.requests = @ + 1]
    ELSE [trends |-> "absent", requests |-> 1]

\* generateSummaryForRegion, collectAutomatedSectionData and the data test.
GenCollect(t) ==
    /\ t.pc = "genCollect"
    /\ \E news \in NewsOutcomes, finance \in FinanceOutcomes,
          answers \in TrendsAnswers :
         LET collected == collectAutomatedTrendsData(answers, 0)
             data == [NoEvent EXCEPT !.origin = t.origin, !.day = t.date,
                                     !.news = news, !.finance = finance,
                                     !.trends = collected.trends,
                                     !.responses =
                                        SubSeq(<<answers[1], answers[2], answers[3]>>,
                                               1, collected.requests)]
         IN
         IF coreDataInsufficient(news, finance)
         THEN /\ tasks' = Without(t)
              /\ lastGenerationDate' = t.date
              /\ isGenerating' = flagAfterPass(isGenerating)
              /\ event' = [data EXCEPT !.type = "passEnd", !.result = "insufficient"]
              /\ UNCHANGED hist
         ELSE /\ tasks' = With(Without(t), [t EXCEPT !.pc = "genLLM", !.attempt = 1,
                                                     !.model = selectedModel])
              /\ event' = [data EXCEPT !.type = "collected"]
              /\ UNCHANGED <<isGenerating, lastGenerationDate, hist>>
    /\ UNCHANGED <<file, clock, loaded, browser, call>>

\* One turn of the loop of generateAutomatedSummary, and what
\* generateSummaryForRegion does with its result. reply: "text" (content with no
\* error marker), "errortext" (content that includes 'Error:' or 'Unable to
\* generate'), "empty" (no content), "throw".
LLMReplies == {"text", "errortext", "empty", "throw"}

\* Variant of hasAttemptLeft that allows one call more.
hasAttemptLeftInclusive(attempt) == attempt <= maxRetries

\* for (attempt = 1; attempt <= maxRetries; attempt++): after the call numbered
\* attempt has failed, another call follows.
hasAttemptLeft(attempt) == attempt + 1 <= maxRetries

GenLLMAttempt(t) ==
    /\ t.pc = "genLLM"
    /\ \E reply \in LLMReplies :
         CASE reply = "text" ->
                /\ hist.texts < MaxContent
                /\ tasks' = With(Without(t), [t EXCEPT !.pc = "saveRead",
                                                       !.content = hist.texts + 1])
                /\ hist' = [hist EXCEPT !.texts = @ + 1]
                /\ event' = NoEvent
                /\ UNCHANGED <<isGenerating, lastGenerationDate>>
           [] reply = "errortext" -> PassEndsWith(t, "invalid")
           [] OTHER ->
                IF hasAttemptLeft(t.attempt)
                THEN /\ tasks' = With(Without(t), [t EXCEPT !.attempt = @ + 1,
                                                            !.model = selectedModel])
                     /\ event' = NoEvent
                     /\ UNCHANGED <<isGenerating, lastGenerationDate, hist>>
                ELSE PassEndsWith(t, "llmfail")
    /\ UNCHANGED <<file, clock, loaded, browser, call>>

\* ---------------------------------------------------------------- manual refresh
\* summary.js, refreshSummary and generateSummary. An attempt is the async
\* function refreshSummary races against its 60 s timer; it is a task with
\* caller "manual", origin "racing" until the race is settled.

\* Variant of hasRefreshedToday that never finds the marker.
hasRefreshedTodayNever(b, today) == FALSE

\* hasRefreshedToday: bypassed on localhost, else marker === today.
hasRefreshedToday(b, today) ==
    IF b.localhost THEN FALSE ELSE b.marker = today

markRefreshedToday(b, today) == [b EXCEPT !.marker = today]

\* Arguments of updateSummaryDisplay: a summary text with its section headers,
\* null, or a message (an error or timeout message: it has no section header
\* and is not the literal 'Error: Unable to generate summary. Please try again
\* later.').
TextOf(id) == [kind |-> "summary", id |-> id]
NullText == [kind |-> "null", id |-> 0]
MessageText == [kind |-> "message", id |-> 0]

\* updateSummaryDisplay: null shows "No summary exists"; otherwise the sections
\* parseSummarySections finds are written, and a text without headers writes
\* no element.
updateSummaryDisplay(b, text) ==
    IF text.kind = "null" THEN [b EXCEPT !.display = -1]
    ELSE IF text.kind = "summary" THEN [b EXCEPT !.display = text.id]
    ELSE b

\* Variant of the backoff with a constant wait.
backoffDelayConstant(retryCount) == 2000

\* Math.pow(2, retryCount) * 1000, retryCount already incremented.
backoffDelay(retryCount) == (2 ^ retryCount) * 1000

\* document.getElementById('model-select')?.value || 'z-ai/glm-4.5-air:free'
selectedModelOf(b) ==
    IF b.modelSelect = "" THEN "z-ai/glm-4.5-air:free" ELSE b.modelSelect

\* The values the user can choose in 'model-select'.
SelectValues == {"", "openai/gpt-oss-20b:free"}

\* The user changes the selection of 'model-select'.
SelectModel ==
    /\ \E value \in SelectValues \ {browser.modelSelect} :
         browser' = [browser EXCEPT !.modelSelect = value]
    /\ event' = NoEvent
    /\ UNCHANGED <<file, tasks, clock, isGenerating, lastGenerationDate, loaded,
                   hist, call>>

\* A step of the manual path and the notification it showed ("": none).
ManualEvent(origin, result, text, notice) ==
    [NoEvent EXCEPT !.type = "manual", !.origin = origin, !.day = clock.day,
                    !.result = result, !.text = text, !.notice = notice]

\* The user invokes refreshSummary: the daily gate, then the attempt starts and
\* runs to the first fetch of collectSectionData.
RefreshInvoke ==
    /\ IF hasRefreshedToday(browser, clock.day)
       THEN /\ event' = ManualEvent("", "limit", 0, "limit")
            /\ UNCHANGED <<tasks, browser>>
       ELSE /\ HasRoom
            /\ browser' = [browser EXCEPT !.summaryGenerated = FALSE,
                                          !.dateDisabled = TRUE,
                                          !.loading = TRUE]
            /\ tasks' = With(tasks, [NewTask EXCEPT !.pc = "collect",
                                                    !.caller = "manual",
                                                    !.origin = "racing",
                                                    !.language = "en",
                                                    !.country = "US"])
            /\ event' = ManualEvent("racing", "started", 0, "")
    /\ UNCHANGED <<file, clock, isGenerating, lastGenerationDate, loaded, hist, call>>

\* The attempt's async function returns with the page b: its last statement is
\* setControlsDisabled(false); when refreshSummary still awaits it, the race is
\* settled and the finally block runs.
InnerReturns(t, b, result, notice) ==
    /\ browser' = IF t.origin = "racing"
                  THEN [b EXCEPT !.dateDisabled = FALSE, !.loading = FALSE]
                  ELSE [b EXCEPT !.dateDisabled = FALSE]
    /\ tasks' = Without(t)
    /\ event' = ManualEvent(t.origin, result, t.content, notice)

\* generateSummary returned null (summaryGenerated was set by another attempt):
\* refreshSummary's else branch, lines 1420-1421.
ReturnsNull(t) ==
    InnerReturns(t, updateSummaryDisplay(browser, NullText), "genfail", "genfail")

\* generateSummary returned a text with an error marker: lines 1420-1421.
ReturnsInvalid(t) ==
    InnerReturns(t, updateSummaryDisplay(browser, MessageText), "genfail", "genfail")

\* collectSectionData is done; generateSummary starts and sends its first
\* POST /api/chat. No test is made on the collected data.
RefCollect(t) ==
    /\ t.caller = "manual" /\ t.pc = "collect"
    /\ \E news \in NewsOutcomes, finance \in FinanceOutcomes,
          trends \in TrendsOutcomes :
         IF browser.summaryGenerated
         THEN ReturnsNull(t)
         ELSE /\ tasks' = With(Without(t), [t EXCEPT !.pc = "chat",
                                                      !.model = selectedModelOf(browser)])
              /\ UNCHANGED browser
              /\ event' = [ManualEvent(t.origin, "chatSent", 0, "wait") EXCEPT
                             !.news = news, !.finance = finance,
                             !.trends = trends,
                             !.model = selectedModelOf(browser)]
    /\ UNCHANGED <<file, clock, isGenerating, lastGenerationDate, loaded, hist, call>>

\* The loop of generateSummary has ended without a summary: lines 583-588, and
\* what refreshSummary does with the returned message (lines 1414-1422). A
\* message without 'Error:' and 'Unable to generate' passes the test of line
\* 1414. retryCount, lastError and the model are not read after the loop: the
\* task drops them.
LoopEnds(t, err) ==
    IF browser.summaryGenerated THEN ReturnsNull(t)
    ELSE IF err = "plain"
    THEN /\ browser' = updateSummaryDisplay(
                         updateSummaryDisplay(browser, MessageText), MessageText)
         /\ tasks' = With(Without(t), [t EXCEPT !.pc = "relisting",
                                                !.lastError = "",
                                                !.attempt = 0,
                                                !.model = ""])
         /\ event' = ManualEvent(t.origin, "retry", 0, "")
    ELSE ReturnsInvalid(t)

\* What POST /api/chat can answer: a reply that is a summary; a reply that is
\* empty or holds an error marker; HTTP 404 or 503; another HTTP error or a
\* network error whose message has no 'Error:' ("failPlain") or has one.
ChatReplies == {"text", "errortext", "retryable", "failPlain", "failMarked"}

\* One answer of POST /api/chat in the loop of generateSummary.
RefChatReply(t) ==
    /\ t.caller = "manual" /\ t.pc = "chat"
    /\ \E reply \in ChatReplies :
         CASE reply = "text" ->
                /\ hist.texts < MaxContent
                /\ browser' = updateSummaryDisplay(browser, TextOf(hist.texts + 1))
                /\ tasks' = With(Without(t), [t EXCEPT !.pc = "saving",
                                                       !.content = hist.texts + 1,
                                                       !.date = clock.day,
                                                       !.lastError = "",
                                                       !.attempt = 0,
                                                       !.model = ""])
                /\ hist' = [hist EXCEPT !.texts = @ + 1]
                /\ event' = ManualEvent(t.origin, "saveSent", hist.texts + 1, "")
           [] reply = "errortext" ->
                /\ ReturnsInvalid(t)
                /\ UNCHANGED hist
           [] OTHER ->
                LET last == reply = "retryable" /\ ~(t.attempt + 1 < maxRetries)
                    count == IF last THEN t.attempt + 2 ELSE t.attempt + 1
                    err == IF reply = "failMarked" THEN "marked"
                           ELSE IF reply = "failPlain" \/ last THEN "plain"
                           ELSE t.lastError
                IN
                /\ IF count < maxRetries
                   THEN /\ tasks' = With(Without(t), [t EXCEPT !.pc = "delay",
                                                               !.attempt = count,
                                                               !.lastError = err])
                        /\ event' = [ManualEvent(t.origin, "retry", 0, "") EXCEPT
                                       !.delay = backoffDelay(count)]
                        /\ UNCHANGED browser
                   ELSE LoopEnds(t, err)
                /\ UNCHANGED hist
    /\ UNCHANGED <<file, clock, isGenerating, lastGenerationDate, loaded, call>>

\* The backoff delay is over: the loop condition, then the next POST /api/chat.
RefDelay(t) ==
    /\ t.caller = "manual" /\ t.pc = "delay"
    /\ IF browser.summaryGenerated
       THEN ReturnsNull(t)
       ELSE /\ tasks' = With(Without(t), [t EXCEPT !.pc = "chat",
                                                    !.model = selectedModelOf(browser)])
            /\ event' = [ManualEvent(t.origin, "chatSent", 0, "") EXCEPT
                           !.model = selectedModelOf(browser)]
            /\ UNCHANGED browser
    /\ UNCHANGED <<file, clock, isGenerating, lastGenerationDate, loaded, hist, call>>

\* saveCurrentSummary: POST /api/summary/save is answered. The request carries
\* the sections shown when it was built; the server's saveDailySummary is taken
\* in one step here.
RefSaved(t) ==
    /\ t.caller = "manual" /\ t.pc = "saving"
    /\ \E ok \in BOOLEAN :
         IF ok
         THEN /\ file' = JsonFile(savedArchive(readExisting(file),
                           summaryWithMetadata(t.content, t.language, t.country,
                                               FALSE, clock), t.date))
              /\ event' = [ManualEvent(t.origin, "saved", t.content, "saved") EXCEPT
                             !.saved = tripleOf(t)]
         ELSE /\ event' = ManualEvent(t.origin, "savefail", t.content, "saveerror")
              /\ UNCHANGED file
    /\ tasks' = With(Without(t), [t EXCEPT !.pc = "listing"])
    /\ UNCHANGED <<browser, clock, isGenerating, lastGenerationDate, loaded, hist, call>>

\* generateSummary after its updateSavedSummariesList: summaryGenerated = true
\* and the text is returned; refreshSummary shows it and awaits the list again.
RefListed(t) ==
    /\ t.caller = "manual" /\ t.pc = "listing"
    /\ browser' = updateSummaryDisplay([browser EXCEPT !.summaryGenerated = TRUE],
                                       TextOf(t.content))
    /\ tasks' = With(Without(t), [t EXCEPT !.pc = "relisting"])
    /\ event' = ManualEvent(t.origin, "listed", t.content, "")
    /\ UNCHANGED <<file, clock, isGenerating, lastGenerationDate, loaded, hist, call>>

\* refreshSummary, lines 1417-1423: the marker is set and success announced.
RefRelisted(t) ==
    /\ t.caller = "manual" /\ t.pc = "relisting"
    /\ InnerReturns(t, [markRefreshedToday(browser, clock.day)
                          EXCEPT !.successDay = clock.day], "success", "success")
    /\ UNCHANGED <<file, clock, isGenerating, lastGenerationDate, loaded, hist, call>>

\* The 60 s timer rejects while refreshSummary awaits the race: the catch block
\* passes the timeout message to updateSummaryDisplay, the finally block runs,
\* and the attempt goes on by itself.
RefTimeout(t) ==
    /\ t.caller = "manual" /\ t.origin = "racing"
    /\ browser' = [updateSummaryDisplay(browser, MessageText) EXCEPT
                     !.loading = FALSE, !.dateDisabled = FALSE]
    /\ tasks' = With(Without(t), [t EXCEPT !.origin = "abandoned"])
    /\ event' = ManualEvent("racing", "timeout", t.content, "")
    /\ UNCHANGED <<file, clock, isGenerating, lastGenerationDate, loaded, hist, call>>

\* The browser's local date changes.
NextDay ==
    /\ clock.day < MaxDay
    /\ clock' = [clock EXCEPT !.day = @ + 1]
    /\ event' = NoEvent
    /\ UNCHANGED <<file, tasks, isGenerating, lastGenerationDate, loaded, hist,
                   browser, call>>

\* ---------------------------------------------------------------- section parser
\* A summary text is a sequence of tokens: "**", a header name, ":", "---",
\* white space (" ") and words.
HeaderNames ==
    <<"NEWS HIGHLIGHTS", "TRENDING TOPICS", "MARKET OVERVIEW", "INFO GENIE">>

WhiteSpace == {" "}

\* The pattern pat occurs in text at position i.
startsAt(text, i, pat) ==
    /\ i + Len(pat) - 1 <= Len(text)
    /\ SubSeq(text, i, i + Len(pat) - 1) = pat

Bold(h) == <<"**", h, "**">>

\* (?:\*\*H\*\*|H:?) at position i: the positions just after the header, in
\* the order the regular expression engine tries them.
headerEnds(text, i, h) ==
    (IF startsAt(text, i, Bold(h)) THEN <<i + 3>> ELSE << >>)
    \o (IF startsAt(text, i, <<h, ":">>) THEN <<i + 2>> ELSE << >>)
    \o (IF startsAt(text, i, <<h>>) THEN <<i + 1>> ELSE << >>)

\* The lookahead (?=\*\*N\*\*|N:?|---) at position j, N the header that follows
\* h in the fixed order; for the last header the anchor $ instead.
lookahead(text, j, k) ==
    IF k = Len(HeaderNames)
    THEN j = Len(text) + 1
    ELSE \/ startsAt(text, j, Bold(HeaderNames[k + 1]))
         \/ startsAt(text, j, <<HeaderNames[k + 1]>>)
         \/ startsAt(text, j, <<"---">>)

\* Variant of trim that removes nothing.
trimNothing(s) == s

RECURSIVE trimStart(_)
trimStart(s) ==
    IF s # << >> /\ Head(s) \in WhiteSpace THEN trimStart(Tail(s)) ELSE s

RECURSIVE trimEnd(_)
trimEnd(s) ==
    IF s # << >> /\ s[Len(s)] \in WhiteSpace
    THEN trimEnd(SubSeq(s, 1, Len(s) - 1)) ELSE s

\* String.prototype.trim
trim(s) == trimEnd(trimStart(s))

NoSection == [found |-> FALSE, body |-> << >>]

\* text.match(/(?:\*\*H\*\*|H:?)(.*?)(?=...)/s) for the k-th header, and the
\* trimmed group 1 when it matches: the leftmost start, the first header end
\* that has a continuation, the shortest group.
matchSection(text, k) ==
    LET h == HeaderNames[k]
        stops(e) == {j \in e..(Len(text) + 1) : lookahead(text, j, k)}
        usable(i) == {n \in DOMAIN headerEnds(text, i, h) :
                        stops(headerEnds(text, i, h)[n]) # {}}
        starts == {i \in 1..Len(text) : usable(i) # {}}
    IN  IF starts = {} THEN NoSection
        ELSE LET i == CHOOSE x \in starts : \A y \in starts : x <= y
                 n == CHOOSE x \in usable(i) : \A y \in usable(i) : x <= y
                 e == headerEnds(text, i, h)[n]
                 j == CHOOSE x \in stops(e) : \A y \in stops(e) : x <= y
             IN  [found |-> TRUE, body |-> trim(SubSeq(text, e, j - 1))]

\* server.js, parseAutomatedSummarySections
parseAutomatedSummarySections(summaryText) ==
    [news |-> matchSection(summaryText, 1),
     trends |-> matchSection(summaryText, 2),
     finance |-> matchSection(summaryText, 3),
     insights |-> matchSection(summaryText, 4)]

\* summary.js, parseSummarySections: the same four expressions.
parseSummarySections(summaryText) ==
    [news |-> matchSection(summaryText, 1),
     trends |-> matchSection(summaryText, 2),
     finance |-> matchSection(summaryText, 3),
     insights |-> matchSection(summaryText, 4)]

\* The texts given to the parsers. A layout says, for each header, whether it
\* is missing or how it is spelled, whether text precedes the first header, and
\* whether a '---' line separates the sections. The k-th section's body is
\* white space, two words, white space.
Spellings == {"none", "bold", "plain"}

Layouts ==
    [spelling : [1..Len(HeaderNames) -> Spellings],
     preamble : BOOLEAN, rules : BOOLEAN]

Words == <<"n", "t", "f", "i">>

BodyOf(k) == <<" ", Words[k], " ", "more", " ">>

HeaderOf(k, spelling) ==
    IF spelling = "bold" THEN Bold(HeaderNames[k]) ELSE <<HeaderNames[k], ":">>

RECURSIVE TextFrom(_, _)
TextFrom(layout, k) ==
    IF k > Len(HeaderNames) THEN << >>
    ELSE IF layout.spelling[k] = "none" THEN TextFrom(layout, k + 1)
    ELSE HeaderOf(k, layout.spelling[k]) \o BodyOf(k)
         \o (IF layout.rules
                /\ \E m \in (k + 1)..Len(HeaderNames) : layout.spelling[m] # "none"
             THEN <<"---", " ">> ELSE << >>)
         \o TextFrom(layout, k + 1)

TextOfLayout(layout) ==
    (IF layout.preamble THEN <<"Summary", " ">> ELSE << >>) \o TextFrom(layout, 1)

\* The variables the pure functions do not touch.
programState ==
    <<file, tasks, clock, isGenerating, lastGenerationDate, loaded, event, hist,
      browser>>

\* The generator parses a completion. A pure function is called once, on an
\* input of its domain.
ParseAutomated(layout) ==
    /\ call = NoCall
    /\ call' = [fn |-> "parseAutomatedSummarySections", layout |-> layout,
                sections |-> parseAutomatedSummarySections(TextOfLayout(layout))]
    /\ UNCHANGED programState

\* The page parses a summary text.
ParsePage(layout) ==
    /\ call = NoCall
    /\ call' = [fn |-> "parseSummarySections", layout |-> layout,
                sections |-> parseSummarySections(TextOfLayout(layout))]
    /\ UNCHANGED programState

\* The header names as createAnalysisPrompt also spells them ('Info Genie:'):
\* other tokens than the upper-case ones, as the expressions have no i flag.
MixedCaseNames ==
    <<"News Highlights", "Trending Topics", "Market Overview", "Info Genie">>

\* The text with the headers of `lowered` spelled in mixed case.
inMixedCase(text, lowered) ==
    [i \in DOMAIN text |->
       IF \E k \in lowered : text[i] = HeaderNames[k]
       THEN MixedCaseNames[CHOOSE k \in lowered : text[i] = HeaderNames[k]]
       ELSE text[i]]

\* The generator parses a completion some of whose headers are in mixed case;
\* upper: the result for the same text with upper-case headers.
ParseAutomatedCase ==
    /\ call = NoCall
    /\ \E layout \in Layouts, lowered \in SUBSET DOMAIN HeaderNames :
         call' = [fn |-> "parseAutomatedSummarySections", layout |-> layout,
                  lowered |-> lowered,
                  sections |-> parseAutomatedSummarySections(
                                 inMixedCase(TextOfLayout(layout), lowered)),
                  upper |-> parseAutomatedSummarySections(TextOfLayout(layout))]
    /\ UNCHANGED programState

\* The page parses such a text.
ParsePageCase ==
    /\ call = NoCall
    /\ \E layout \in Layouts, lowered \in SUBSET DOMAIN HeaderNames :
         call' = [fn |-> "parseSummarySections", layout |-> layout,
                  lowered |-> lowered,
                  sections |-> parseSummarySections(
                                 inMixedCase(TextOfLayout(layout), lowered)),
                  upper |-> parseSummarySections(TextOfLayout(layout))]
    /\ UNCHANGED programState

\* sections.x || '': the section's text, or the empty string when the parser
\* set no field or an empty one.
orEmpty(section) == IF section.found THEN section.body ELSE << >>

\* generateSummaryForRegion, lines 578-592: the record built from a completion
\* that passed the validity test (no text of Layouts holds 'Error:' or 'Unable
\* to generate'), as it is handed to saveDailySummary.
summaryDataOf(summaryText) ==
    LET sections == parseAutomatedSummarySections(summaryText)
    IN  [news |-> orEmpty(sections.news),
         trends |-> orEmpty(sections.trends),
         finance |-> orEmpty(sections.finance),
         overall |-> orEmpty(sections.insights),
         automated |-> TRUE]

\* The generator builds the record of a completion.
BuildSummaryData ==
    /\ call = NoCall
    /\ \E layout \in Layouts :
         call' = [fn |-> "generateSummaryForRegion", layout |-> layout,
                  summaryData |-> summaryDataOf(TextOfLayout(layout))]
    /\ UNCHANGED programState

\* ---------------------------------------------------------------- market hours
\* isMarketOpen reads the clock as New York wall time: etNow is a calendar
\* date (year, month 0-11, date) with an hour and a minute.
Years == {2026, 2027}
Hours == 0..23
Minutes == {0, 29, 30, 31, 59}

isLeapYear(y) == (y % 4 = 0 /\ y % 100 # 0) \/ y % 400 = 0

daysInMonth(y, month) ==
    IF month = 1 THEN (IF isLeapYear(y) THEN 29 ELSE 28)
    ELSE IF month \in {3, 5, 8, 10} THEN 30 ELSE 31

\* Date.prototype.getDay: 0 is Sunday (Zeller's congruence).
getDay(y, month, date) ==
    LET m == IF month < 2 THEN month + 13 ELSE month + 1
        yy == IF month < 2 THEN y - 1 ELSE y
        K == yy % 100
        J == yy \div 100
        h == (date + ((13 * (m + 1)) \div 5) + K + (K \div 4) + (J \div 4) + 5 * J) % 7
    IN  (h + 6) % 7

EtTimes ==
    {[year |-> y, month |-> m, date |-> d, hour |-> hh, minute |-> mm] :
        y \in Years, m \in 0..11, d \in 1..31, hh \in Hours, mm \in Minutes}

\* The wall-clock instants that exist.
EtNows == {t \in EtTimes : t.date <= daysInMonth(t.year, t.month)}

\* isGoodFriday: Easter Sunday by the computus, then two days back.
isGoodFriday(d) ==
    LET year == d.year
        a == year % 19
        b == year \div 100
        c == year % 100
        d1 == b \div 4
        e == b % 4
        f1 == (b + 8) \div 25
        g == (b - f1 + 1) \div 3
        h == (19 * a + b - d1 - g + 15) % 30
        i == c \div 4
        k == c % 4
        l == (32 + 2 * e + 2 * i - h - k) % 7
        m == (a + 11 * h + 22 * l) \div 451
        month == ((h + l - 7 * m + 114) \div 31) - 1
        day == ((h + l - 7 * m + 114) % 31) + 1
        goodFriday == IF day - 2 >= 1
                      THEN [month |-> month, date |-> day - 2]
                      ELSE [month |-> month - 1,
                            date |-> daysInMonth(year, month - 1) + day - 2]
    IN  d.month = goodFriday.month /\ d.date = goodFriday.date

\* Variant of isHoliday that knows the fixed-date holidays only.
isHolidayFixedOnly(d) ==
    \/ (d.month = 0 /\ d.date = 1)
    \/ (d.month = 5 /\ d.date = 19)
    \/ (d.month = 6 /\ d.date = 4)
    \/ (d.month = 11 /\ d.date = 25)

\* The isHoliday closure of isMarketOpen.
isHoliday(d) ==
    LET month == d.month
        date == d.date
        dayOfWeek == getDay(d.year, d.month, d.date)
    IN  \/ (month = 0 /\ date = 1)
        \/ (month = 5 /\ date = 19)
        \/ (month = 6 /\ (\/ date = 4
                          \/ (date = 3 /\ dayOfWeek = 5)
                          \/ (date = 5 /\ dayOfWeek = 1)))
        \/ (month = 11 /\ (\/ date = 25
                           \/ (date = 24 /\ dayOfWeek = 5)
                           \/ (date = 26 /\ dayOfWeek = 1)))
        \/ (month = 0 /\ dayOfWeek = 1 /\ date >= 15 /\ date <= 21)
        \/ (month = 1 /\ dayOfWeek = 1 /\ date >= 15 /\ date <= 21)
        \/ (month = 4 /\ dayOfWeek = 1 /\ date > 24)
        \/ (month = 8 /\ dayOfWeek = 1 /\ date <= 7)
        \/ (month = 10 /\ dayOfWeek = 4 /\ date >= 22 /\ date <= 28)
        \/ isGoodFriday(d)

\* Variant of withinMarketHours that opens at 9:00.
withinMarketHoursFromNine(hour, minute) == hour >= 9 /\ hour < 16

\* (hour > 9 || (hour === 9 && minute >= 30)) && hour < 16
withinMarketHours(hour, minute) ==
    (hour > 9 \/ (hour = 9 /\ minute >= 30)) /\ hour < 16

\* server.js, isMarketOpen
isMarketOpenServer(etNow) ==
    LET day == getDay(etNow.year, etNow.month, etNow.date)
    IN  /\ day >= 1 /\ day <= 5 /\ ~isHoliday(etNow)
        /\ withinMarketHours(etNow.hour, etNow.minute)

\* The symbols of the page's input; the first is the default.
Symbols == {"^IXIC", "BTC-USD"}

\* symbol.endsWith('-USD')
endsWithUSD(symbol) == symbol = "BTC-USD"

\* The page's isMarketOpen: the crypto check, then the same test.
isMarketOpen(symbol, etNow) ==
    IF endsWithUSD(symbol) THEN TRUE ELSE isMarketOpenServer(etNow)

\* One evaluation and what it saw.
MarketCall(fn, symbol, etNow, open) ==
    [fn |-> fn, symbol |-> symbol, etNow |-> etNow,
     day |-> getDay(etNow.year, etNow.month, etNow.date),
     holiday |-> isHoliday(etNow), open |-> open]

\* The server evaluates isMarketOpen at some instant.
MarketServer ==
    /\ call = NoCall
    /\ \E etNow \in EtNows :
         call' = MarketCall("isMarketOpenServer", "", etNow,
                            isMarketOpenServer(etNow))
    /\ UNCHANGED programState

\* The page evaluates isMarketOpen at some instant for the symbol of its input.
MarketPage ==
    /\ call = NoCall
    /\ \E symbol \in Symbols, etNow \in EtNows :
         call' = MarketCall("isMarketOpen", symbol, etNow,
                            isMarketOpen(symbol, etNow))
    /\ UNCHANGED programState

\* ---------------------------------------------------------------- bulk finance
\* POST /api/finance/bulk-real-time. The request in flight is held in call:
\* symbols, the indices whose yahooFinance.quote has not settled, how each
\* settled, the results object and the response (status 0: not sent).
RequestedSymbols == {"AAPL", "BTC-USD", "__proto__"}

SymbolLists ==
    UNION {[1..n -> RequestedSymbols] : n \in 0..MaxSymbols}

\* const results = {}: its own properties, and whether its prototype is still
\* Object.prototype.
EmptyObject == [own |-> {}, protoReplaced |-> FALSE]

\* results[symbol] = value on a plain object: the key '__proto__' is the
\* prototype accessor, and an object value becomes the prototype instead of an
\* own property.
setProperty(obj, key, value) ==
    IF key = "__proto__"
    THEN [obj EXCEPT !.protoReplaced = TRUE]
    ELSE [obj EXCEPT !.own = {p \in @ : p[1] # key} \cup {<<key, value>>}]

\* res.json(results): JSON.stringify writes the own enumerable properties.
jsonBody(obj) == obj.own

QuoteOutcomes == {"quote", "nodata", "throws"}

\* What the callback stores for an outcome of yahooFinance.quote.
entryFor(outcome) == IF outcome = "quote" THEN "quote" ELSE "error"

\* The request arrives: the 400 test, then symbols.map starts every fetch.
BulkRequest ==
    /\ call = NoCall
    /\ \/ call' = [fn |-> "bulk", symbols |-> << >>, pending |-> {},
                   outcome |-> << >>, results |-> EmptyObject,
                   status |-> 400, body |-> {}]
       \/ \E symbols \in SymbolLists :
            call' = [fn |-> "bulk", symbols |-> symbols,
                     pending |-> DOMAIN symbols,
                     outcome |-> [i \in DOMAIN symbols |-> ""],
                     results |-> EmptyObject, status |-> 0, body |-> {}]
    /\ UNCHANGED programState

\* One yahooFinance.quote settles and its callback stores the entry.
BulkSettle ==
    /\ call.fn = "bulk"
    /\ \E i \in call.pending, outcome \in QuoteOutcomes :
         call' = [call EXCEPT !.pending = @ \ {i},
                              !.outcome[i] = outcome,
                              !.results = setProperty(@, call.symbols[i],
                                                      entryFor(outcome))]
    /\ UNCHANGED programState

\* Promise.all has resolved: res.json(results). No callback rejects, so the
\* outer catch (status 500) is never entered.
BulkRespond ==
    /\ call.fn = "bulk"
    /\ call.status = 0
    /\ call.pending = {}
    /\ call' = [call EXCEPT !.status = 200, !.body = jsonBody(call.results)]
    /\ UNCHANGED programState

\* ---------------------------------------------------------------- history listing
\* GET /api/summary/history. Keys of the archive are numbers here: a day of
\* Days is a 'YYYY-MM-DD' string, 0 is a key with language and country
\* appended (as '2025-07-01-en-US') and -1 a key that is no date at all (as
\* 'latest'); POST /api/summary/save accepts any non-empty date.
OtherKeys == {0, -1}

\* date.includes('-') && date.split('-').length > 3
hasMoreThanThreeParts(key) == key = 0

\* Variant of matchesDateFormat that accepts every key.
matchesAnyKey(key) == TRUE

\* /^\d{4}-\d{2}-\d{2}$/.test(date)
matchesDateFormat(key) == key \in Days

\* The entry pushed for one record.
historyEntry(key, summary) ==
    [date |-> key,
     day |-> summary.day, late |-> summary.late,
     language |-> IF summary.language = "" THEN "en" ELSE summary.language,
     country |-> IF summary.country = "" THEN "US" ELSE summary.country,
     automated |-> summary.automated]

\* The entries pushed for one key of the archive: none for a skipped key, one
\* per element of an array, one for a single object.
entriesOfKey(summaries, key) ==
    IF hasMoreThanThreeParts(key) \/ ~matchesDateFormat(key) THEN << >>
    ELSE [j \in 1..Len(summaries[key].recs) |->
            historyEntry(key, summaries[key].recs[j])]

\* Object.entries(summaries).forEach(...) followed by the sort, newest date
\* first: the entries of the keys from the greatest down to least.
RECURSIVE sortedEntries(_, _)
sortedEntries(summaries, keys) ==
    IF keys = {} THEN << >>
    ELSE LET k == CHOOSE x \in keys : \A y \in keys : y <= x
         IN  entriesOfKey(summaries, k) \o sortedEntries(summaries, keys \ {k})

\* The answer: the inner catch turns a failed read or parse into an empty list.
summaryHistory(f) ==
    LET r == readAndParse(f) IN
    [fn |-> "history", status |-> 200, success |-> TRUE,
     summaries |-> IF r.threw THEN << >>
                   ELSE sortedEntries(r.summaries,
                          {k \in DOMAIN r.summaries : r.summaries[k].shape # "none"})]

\* An archive that also holds records under keys that are not dates.
MixedArchive ==
    [k \in Days \cup OtherKeys |->
       IF k \in OtherKeys
       THEN [shape |-> "arr",
             recs |-> <<summaryWithMetadata(1, "en", "US", FALSE,
                                            [day |-> 1, slot |-> 0])>>]
       ELSE LegacyArchive[k]]

\* GET /api/summary/history is answered.
HistoryRequest ==
    /\ call' = summaryHistory(file)
    /\ event' = [NoEvent EXCEPT !.type = "history"]
    /\ UNCHANGED <<file, tasks, clock, isGenerating, lastGenerationDate, loaded,
                   hist, browser>>

\* ---------------------------------------------------------------- chat endpoint
\* POST /api/chat and callOpenRouterWithRetry. The request in flight is held in
\* call: the requested model, the attempt, the models called so far, the
\* message of the last error, and the response (status 0: not sent).
DefaultChatModel == "deepseek/deepseek-r1:free"

FallbackList ==
    <<"openai/gpt-oss-20b:free", "meta-llama/llama-3.3-70b-instruct:free",
      "qwen/qwen3-235b-a22b:free">>

\* [...new Set(models)]: the first occurrence of each, in order.
RECURSIVE uniqueOf(_)
uniqueOf(models) ==
    IF models = << >> THEN << >>
    ELSE LET rest == uniqueOf(SubSeq(models, 1, Len(models) - 1))
             last == models[Len(models)]
         IN  IF \E i \in DOMAIN rest : rest[i] = last THEN rest
             ELSE Append(rest, last)

\* uniqueModels of callOpenRouterWithRetry.
uniqueModels(model) == uniqueOf(<<model>> \o FallbackList)

\* retries = 2: the default, which POST /api/chat uses.
retries == 2

Min(a, b) == IF a < b THEN a ELSE b

\* uniqueModels[Math.min(attempt, uniqueModels.length - 1)], attempt from 0.
currentModel(model, attempt) ==
    uniqueModels(model)[Min(attempt, Len(uniqueModels(model)) - 1) + 1]

\* The models a request may name: the default, the page's default and the
\* members of the fallback list.
RequestedModels ==
    {DefaultChatModel, selectedModel} \cup {FallbackList[i] : i \in DOMAIN FallbackList}

CallErrors == {"rate limited", "no endpoints"}

ResponseShapes == {"content", "nocontent", "malformed"}

ChatFrame(model) ==
    [fn |-> "chat", model |-> model, attempt |-> 0, tried |-> << >>,
     lastError |-> "", status |-> 0, reply |-> ""]

\* The request arrives: 503 without an API key, 400 without messages, else the
\* first call of callOpenRouterWithRetry is made.
ChatRequest ==
    /\ call = NoCall
    /\ \E hasKey \in BOOLEAN, hasMessages \in BOOLEAN, model \in RequestedModels :
         call' = IF ~hasKey THEN [ChatFrame("") EXCEPT !.status = 503]
                 ELSE IF ~hasMessages THEN [ChatFrame(model) EXCEPT !.status = 400]
                 ELSE [ChatFrame(model) EXCEPT
                         !.tried = <<currentModel(model, 0)>>]
    /\ UNCHANGED programState

\* The call in flight fails: after the last attempt the error is thrown and
\* the handler answers 500; otherwise the wait, then the next call.
ChatCallFails ==
    /\ call.fn = "chat" /\ call.status = 0
    /\ \E error \in CallErrors :
         call' = IF call.attempt = retries
                 THEN [call EXCEPT !.lastError = error, !.status = 500,
                                   !.reply = error]
                 ELSE [call EXCEPT !.lastError = error, !.attempt = @ + 1,
                                   !.tried = Append(@, currentModel(call.model,
                                                           call.attempt + 1))]
    /\ UNCHANGED programState

\* The call in flight returns a response, which the handler validates.
ChatCallReturns ==
    /\ call.fn = "chat" /\ call.status = 0
    /\ \E shape \in ResponseShapes :
         call' = IF shape = "malformed"
                 THEN [call EXCEPT !.status = 500, !.reply = "invalid response"]
                 ELSE [call EXCEPT !.status = 200, !.reply = shape]
    /\ UNCHANGED programState

\* ---------------------------------------------------------------- collectors
\* collectAutomatedNewsData, collectAutomatedFinanceData and
\* collectAutomatedSectionData, as functions of what the upstream endpoints
\* answer. A result is [threw, value]: the function threw, or returned value.
Returned(value) == [threw |-> FALSE, value |-> value]
Thrown == [threw |-> TRUE, value |-> "absent"]

\* What GET /api/news can answer: a non-OK status; a rejected fetch; a body
\* that is not JSON; a body without articles or with an empty list; a list
\* with a null entry (article.title throws); a list of articles.
NewsUpstream ==
    {"notok", "network", "unparsable", "noarticles", "badarticles", "articles"}

\* The try block of collectAutomatedNewsData.
newsBody(upstream) ==
    CASE upstream = "notok" -> Returned("absent")
      [] upstream = "noarticles" -> Returned("absent")
      [] upstream = "articles" -> Returned("some")
      [] OTHER -> Thrown

\* Variant of collectAutomatedNewsData without its catch block.
collectAutomatedNewsDataNoCatch(upstream) == newsBody(upstream)

\* collectAutomatedNewsData: the catch block returns null.
collectAutomatedNewsData(upstream) ==
    IF newsBody(upstream).threw THEN Returned("absent") ELSE newsBody(upstream)

\* What POST /api/finance/bulk-real-time can answer: a non-OK status; a
\* rejected fetch; a body that is not JSON; the JSON value null (Object.entries
\* throws); an object with a null entry (stockData.error throws); an object
\* whose entries all carry an error; an object with quotes.
FinanceUpstream ==
    {"notok", "network", "unparsable", "nullbody", "nullentry", "allerrors", "quotes"}

\* The try block of collectAutomatedFinanceData.
financeBody(upstream) ==
    CASE upstream = "notok" -> Returned("absent")
      [] upstream = "allerrors" -> Returned("noquotes")
      [] upstream = "quotes" -> Returned("quotes")
      [] OTHER -> Thrown

\* collectAutomatedFinanceData: the catch block returns null.
collectAutomatedFinanceData(upstream) ==
    IF financeBody(upstream).threw THEN Returned("absent") ELSE financeBody(upstream)

\* The bundle null, as collectAutomatedSectionData's catch block returns it.
NoBundle == [bundle |-> FALSE, news |-> "", trends |-> "", finance |-> ""]

\* collectAutomatedSectionData: the three collectors awaited in turn inside one
\* try block.
collectAutomatedSectionData(newsUp, answers, financeUp) ==
    LET news == collectAutomatedNewsData(newsUp)
        trends == collectAutomatedTrendsData(answers, 0)
        finance == collectAutomatedFinanceData(financeUp)
    IN  IF news.threw \/ finance.threw THEN NoBundle
        ELSE [bundle |-> TRUE, news |-> news.value, trends |-> trends.trends,
              finance |-> finance.value]

\* One collection against given upstream answers.
CollectSectionData ==
    /\ call = NoCall
    /\ \E newsUp \in NewsUpstream, answers \in TrendsAnswers,
          financeUp \in FinanceUpstream :
         call' = [fn |-> "collectAutomatedSectionData",
                  newsUp |-> newsUp, answers |-> answers, financeUp |-> financeUp,
                  newsThrew |-> collectAutomatedNewsData(newsUp).threw,
                  financeThrew |-> collectAutomatedFinanceData(financeUp).threw,
                  data |-> collectAutomatedSectionData(newsUp, answers, financeUp)]
    /\ UNCHANGED programState

\* ---------------------------------------------------------------- prompt builders
\* createAutomatedAnalysisPrompt (server.js) and createAnalysisPrompt
\* (summary.js). A prompt is kept as what it holds: whether the headlines and
\* the trends are listed, the market part, and the section names of its closing
\* output-format instructions, in order.
Equities == {"AAPL", "^GSPC"}
Cryptos == {"BTC-USD", "ETH-USD"}

\* The finance field of a bundle: null, or the object the collectors build
\* (nasdaq: the ^IXIC quote is there; techStocks and crypto: the symbols with a
\* quote; both objects are always there).
NoFinance == [present |-> FALSE, nasdaq |-> FALSE, techStocks |-> {}, crypto |-> {}]

FinanceBundles ==
    {NoFinance} \cup
    [present : {TRUE}, nasdaq : BOOLEAN, techStocks : SUBSET Equities,
     crypto : SUBSET Cryptos]

Bundles == [news : NewsOutcomes, trends : TrendsOutcomes, finance : FinanceBundles]

\* Instants in New York: a Saturday and a Sunday at noon, a Tuesday at noon and
\* at 20:00, Thanksgiving at noon.
PromptInstants ==
    {[year |-> 2026, month |-> 10, date |-> 7, hour |-> 12, minute |-> 0],
     [year |-> 2026, month |-> 10, date |-> 8, hour |-> 12, minute |-> 0],
     [year |-> 2026, month |-> 10, date |-> 3, hour |-> 12, minute |-> 0],
     [year |-> 2026, month |-> 10, date |-> 3, hour |-> 20, minute |-> 0],
     [year |-> 2026, month |-> 10, date |-> 26, hour |-> 12, minute |-> 0]}

\* getDay() === 0 || getDay() === 6
isWeekendDay(d) == getDay(d.year, d.month, d.date) \in {0, 6}

NoMarketPart == [form |-> "unavailable", index |-> FALSE, equities |-> {}, crypto |-> {}]

\* The MARKET DATA part of createAutomatedAnalysisPrompt. techStocks is an
\* object, so `nasdaq || techStocks` holds whenever finance is there.
automatedMarketPart(finance, isMarketClosed, isActualWeekend) ==
    IF ~finance.present THEN NoMarketPart
    ELSE IF isMarketClosed /\ isActualWeekend
    THEN [form |-> "weekend", index |-> FALSE, equities |-> {},
          crypto |-> finance.crypto]
    ELSE IF isMarketClosed /\ ~isActualWeekend
    THEN [form |-> "afterhours", index |-> finance.nasdaq,
          equities |-> finance.techStocks, crypto |-> finance.crypto]
    ELSE [form |-> "open", index |-> finance.nasdaq,
          equities |-> finance.techStocks, crypto |-> finance.crypto]

\* The closing instructions of createAutomatedAnalysisPrompt.
automatedRequested(sectionData) ==
    (IF sectionData.news = "some" THEN <<"NEWS HIGHLIGHTS">> ELSE << >>)
    \o <<"TRENDING TOPICS", "MARKET OVERVIEW", "INFO GENIE">>

createAutomatedAnalysisPrompt(sectionData, isMarketClosed, isActualWeekend) ==
    [headlines |-> sectionData.news = "some",
     trends |-> sectionData.trends = "some",
     market |-> automatedMarketPart(sectionData.finance, isMarketClosed,
                                    isActualWeekend),
     requested |-> automatedRequested(sectionData)]

\* The MARKET DATA part of createAnalysisPrompt.
pageMarketPart(finance, isWeekend) ==
    IF ~finance.present THEN NoMarketPart
    ELSE [form |-> IF isWeekend THEN "weekend" ELSE "plain",
          index |-> finance.nasdaq /\ ~isWeekend,
          equities |-> IF isWeekend THEN {} ELSE finance.techStocks,
          crypto |-> finance.crypto]

\* createAnalysisPrompt: isWeekend is taken from the selected date.
createAnalysisPrompt(sectionData, selectedDate) ==
    [headlines |-> sectionData.news = "some",
     trends |-> sectionData.trends = "some",
     market |-> pageMarketPart(sectionData.finance, isWeekendDay(selectedDate)),
     requested |-> <<"NEWS HIGHLIGHTS", "TRENDING TOPICS", "MARKET OVERVIEW",
                     "INFO GENIE">>]

\* generateAutomatedSummary builds its prompt at etNow, for a bundle that
\* passed the test of generateSummaryForRegion.
PromptAutomated ==
    /\ call = NoCall
    /\ \E sectionData \in Bundles, etNow \in PromptInstants :
         /\ sectionData.news = "some" \/ sectionData.finance.present
         /\ call' = [fn |-> "createAutomatedAnalysisPrompt",
                     sectionData |-> sectionData, etNow |-> etNow,
                     selectedDate |-> etNow,
                     prompt |-> createAutomatedAnalysisPrompt(sectionData,
                                   ~isMarketOpenServer(etNow), isWeekendDay(etNow))]
    /\ UNCHANGED programState

\* generateSummary builds its prompt at etNow, the date input showing
\* selectedDate.
PromptPage ==
    /\ call = NoCall
    /\ \E sectionData \in Bundles, etNow \in PromptInstants,
          selectedDate \in PromptInstants :
         call' = [fn |-> "createAnalysisPrompt",
                  sectionData |-> sectionData, etNow |-> etNow,
                  selectedDate |-> selectedDate,
                  prompt |-> createAnalysisPrompt(sectionData, selectedDate)]
    /\ UNCHANGED programState

\* ---------------------------------------------------------------- specifications
\* The store under arbitrary save and load requests.
StoreNext ==
    \/ \E d \in Days, r \in Regions : SaveRequest(d, r[1], r[2])
    \/ \E t \in Running : SaveWrite(t)
    \/ \E t \in Running : SaveWriteFails(t)
    \/ \E d \in Days, r \in Regions : LoadRequest(d, r[1], r[2])

SpecStore == Init /\ [][StoreNext]_vars

\* The generator with its cron and admin triggers.
GenNext ==
    \/ Cron23
    \/ Checkpoint
    \/ Midnight
    \/ AdminTrigger(LocalRequest)
    \/ \E t \in Running : ChkGuard(t)
    \/ \E t \in Running : GenCheckExisting(t)
    \/ \E t \in Running : GenCollect(t)
    \/ \E t \in Running : GenLLMAttempt(t)
    \/ \E t \in Running : SaveRead(t)
    \/ \E t \in Running : SaveWrite(t)
    \/ \E t \in Running : SaveWriteFails(t)

GenInit == InitWith({MissingFile, JsonFile(LegacyArchive)})

Spec == GenInit /\ [][GenNext]_vars

\* The generator, and requests to the two admin endpoints from anywhere.
AdminNext ==
    \/ GenNext
    \/ \E req \in AdminRequests : AdminTrigger(req)
    \/ \E req \in AdminRequests : AutomationStatus(req)

SpecAdmin == GenInit /\ [][AdminNext]_vars

\* The generator, and the dashboard saving today's summary for en/US.
DashNext ==
    \/ GenNext
    \/ SaveRequest(clock.day, "en", "US")

SpecDash == GenInit /\ [][DashNext]_vars

\* The page with its manual refresh, against a store no one else writes.
ManualNext ==
    \/ RefreshInvoke
    \/ NextDay
    \/ \E t \in Running : RefCollect(t)
    \/ \E t \in Running : RefChatReply(t)
    \/ \E t \in Running : RefDelay(t)
    \/ \E t \in Running : RefSaved(t)
    \/ \E t \in Running : RefListed(t)
    \/ \E t \in Running : RefRelisted(t)
    \/ \E t \in Running : RefTimeout(t)

ManualInit ==
    /\ file = MissingFile
    /\ tasks = EmptyBag
    /\ clock = [day |-> 1, slot |-> 0]
    /\ isGenerating = FALSE
    /\ lastGenerationDate = 0
    /\ loaded = NoLoad
    /\ event = NoEvent
    /\ browser \in {PageLoaded(h) : h \in BOOLEAN}
    /\ call = NoCall
    /\ hist = [fresh |-> TRUE, texts |-> 0, staleWrite |-> FALSE,
               autoSaved |-> [d \in Days |-> FALSE], failDay |-> 0]

SpecManual == ManualInit /\ [][ManualNext]_vars

\* The same page, the user also changing the selected model.
SelectNext ==
    \/ ManualNext
    \/ SelectModel

\* The page is not served from localhost: the daily gate is in force.
SelectInit ==
    /\ file = MissingFile
    /\ tasks = EmptyBag
    /\ clock = [day |-> 1, slot |-> 0]
    /\ isGenerating = FALSE
    /\ lastGenerationDate = 0
    /\ loaded = NoLoad
    /\ event = NoEvent
    /\ browser = PageLoaded(FALSE)
    /\ call = NoCall
    /\ hist = [fresh |-> TRUE, texts |-> 0, staleWrite |-> FALSE,
               autoSaved |-> [d \in Days |-> FALSE], failDay |-> 0]

SpecSelect == SelectInit /\ [][SelectNext]_vars

\* The two section parsers on the texts of Layouts.
ParseNext ==
    \/ \E layout \in Layouts : ParseAutomated(layout)
    \/ \E layout \in Layouts : ParsePage(layout)

SpecParse == InitWith({MissingFile}) /\ [][ParseNext]_vars

\* The two market evaluators at the instants of EtNows.
MarketNext ==
    \/ MarketServer
    \/ MarketPage

SpecMarket == InitWith({MissingFile}) /\ [][MarketNext]_vars

\* The bulk finance endpoint serving one request.
BulkNext ==
    \/ BulkRequest
    \/ BulkSettle
    \/ BulkRespond

SpecBulk == InitWith({MissingFile}) /\ [][BulkNext]_vars

\* The store under save requests, and the history listing.
HistoryNext ==
    \/ \E d \in Days, r \in Regions : SaveRequest(d, r[1], r[2])
    \/ \E t \in Running : SaveWrite(t)
    \/ \E t \in Running : SaveWriteFails(t)
    \/ HistoryRequest

SpecHistory == InitWith(InitialFiles \cup {JsonFile(MixedArchive)}) /\ [][HistoryNext]_vars

\* The chat endpoint serving one request.
ChatNext ==
    \/ ChatRequest
    \/ ChatCallFails
    \/ ChatCallReturns

SpecChat == InitWith({MissingFile}) /\ [][ChatNext]_vars

\* The collectors on every combination of upstream answers.
CollectNext == CollectSectionData

SpecCollect == InitWith({MissingFile}) /\ [][CollectNext]_vars

\* The two prompt builders on the bundles of Bundles.
PromptNext ==
    \/ PromptAutomated
    \/ PromptPage

SpecPrompt == InitWith({MissingFile}) /\ [][PromptNext]_vars

\* The two section parsers on texts with headers in mixed case.
CaseNext ==
    \/ ParseAutomatedCase
    \/ ParsePageCase

SpecCase == InitWith({MissingFile}) /\ [][CaseNext]_vars

\* The record the generator builds, on the texts of Layouts.
RecordNext == BuildSummaryData

SpecRecord == InitWith({MissingFile}) /\ [][RecordNext]_vars

\* ---------------------------------------------------------------- properties
\* The region a stored record stands for: an untagged record is en/US.
regionOf(rec) ==
    IF rec.language = "" /\ rec.country = "" THEN <<"en", "US">>
    ELSE <<rec.language, rec.country>>

persisted == readExisting(file)

\* C1: after any sequence of saveDailySummary calls (one after the other) that
\* started from a missing or empty archive, no bucket of the archive holds two
\* records of the same (language, country).
C1_AtMostOneRecordPerTriple ==
    (hist.fresh /\ ~hist.staleWrite) =>
        \A d \in Days :
            \A j, k \in 1..Len(persisted[d].recs) :
                j # k => regionOf(persisted[d].recs[j]) # regionOf(persisted[d].recs[k])

\* C2: when a save for a triple completes after an earlier save for the same
\* triple (its record was in the archive that was read), loadDailySummary for
\* the triple returns the record just saved.
C2_LoadReturnsLatestSave ==
    (event.saved # NoTriple /\ event.again /\ ~hist.staleWrite) =>
        loadDailySummary(file, event.saved.date, event.saved.language,
                         event.saved.country).value.content = event.saved.content

\* The tagged records of an archive, with their date.
taggedRecords(summaries) ==
    UNION {{[date |-> d, rec |-> summaries[d].recs[k]] :
              k \in {j \in 1..Len(summaries[d].recs) :
                       summaries[d].recs[j].language # ""
                       /\ summaries[d].recs[j].country # ""}} : d \in Days}

\* C3: a step in which saveDailySummary writes the archive for (d, L, C) keeps
\* every tagged record of any other triple in the archive, and
\* loadDailySummary for that other triple returns what it returned before.
C3_SaveLeavesOtherTriples ==
    [][event'.saved # NoTriple =>
         /\ \A x \in taggedRecords(persisted) :
              <<x.date, x.rec.language, x.rec.country>>
                  # <<event'.saved.date, event'.saved.language, event'.saved.country>>
              => x \in taggedRecords(readExisting(file'))
         /\ \A d \in Days, r \in Regions :
              LET before == loadDailySummary(file, d, r[1], r[2]).value IN
              (/\ <<d, r[1], r[2]>>
                    # <<event'.saved.date, event'.saved.language, event'.saved.country>>
               /\ before # Null
               /\ before.language # "")
              => loadDailySummary(file', d, r[1], r[2]).value = before]_vars

isLegacyBucket(bucket) ==
    bucket.shape = "obj" /\ bucket.recs[1].language = "" /\ bucket.recs[1].country = ""

\* C4: when the bucket of date d is a single untagged record and
\* saveDailySummary writes a record for d and a region other than en/US,
\* loadDailySummary(d, en, US) still returns the untagged record.
C4_LegacyStillLoaded ==
    [][\A d \in Days :
         (/\ isLegacyBucket(persisted[d])
          /\ event'.saved # NoTriple
          /\ event'.saved.date = d
          /\ <<event'.saved.language, event'.saved.country>> # <<"en", "US">>)
         => loadDailySummary(file', d, "en", "US").value = persisted[d].recs[1]]_vars

\* C5: loadDailySummary never throws, and it returns null when the archive file
\* is missing, empty or not JSON, or has no bucket for the date.
C5_LoadAbsentNeverThrows ==
    /\ ~loaded.threw
    /\ (loaded.date # 0 /\ file.kind # "json") => loaded.value = Null
    /\ \A d \in Days, r \in Regions :
         LET res == loadDailySummary(file, d, r[1], r[2]) IN
         /\ ~res.threw
         /\ (file.kind \in {"missing", "empty", "corrupt"}
               \/ persisted[d].shape = "none") => res.value = Null

\* A load has been answered from an archive file that is not JSON.
C5_Witness ==
    /\ file.kind = "corrupt"
    /\ loaded.date # 0
    /\ loaded.value = Null
    /\ ~loaded.threw

\* C6: when a save completes that overlapped a save of another triple (the
\* other wrote the archive between this save's read and its write), the
\* archive holds the records of both.
C6_NoSaveLost ==
    event.raced # NoTriple =>
        /\ event.saved \in RecordsOf(persisted)
        /\ event.raced \in RecordsOf(persisted)

PassCountIn(bag) ==
    BagCardinality([t \in {u \in BagToSet(bag) : u.caller = "gen"} |-> bag[t]])

\* C7: at most one generate-and-save pass is in flight, and an invocation of
\* generateDailySummary that arrives while isGenerating is true is dropped: it
\* starts no pass, writes nothing, and leaves no handler behind.
C7_SingleFlight ==
    [][/\ PassCountIn(tasks') <= 1
       /\ (isGenerating /\ event'.type = "trigger" /\ event'.result # "late")
          => /\ event'.result = "busy"
             /\ PassCountIn(tasks') = PassCountIn(tasks)
             /\ BagCardinality(tasks') <= BagCardinality(tasks)
             /\ file' = file
             /\ lastGenerationDate' = lastGenerationDate]_vars

\* A trigger arrived during a pass and was dropped.
C7_Witness ==
    /\ event.type = "trigger"
    /\ event.result = "busy"
    /\ isGenerating
    /\ PassCount = 1

\* C8: once an automated pass has written the record of a day, no pass for that
\* day is in flight again: every later invocation of generateDailySummary that
\* day returns before collecting data, calling the LLM or writing the store.
C8_OnePassPerDay ==
    \A t \in PassTasks : ~hist.autoSaved[t.date]

\* After the day's record was written, an invocation came and was dropped.
C8_Witness ==
    /\ event.type = "trigger"
    /\ event.result = "memo"
    /\ hist.autoSaved[event.day]

\* C9: a pass started by the 23:00 trigger never ends by skipping because a
\* summary for (date, en, US) is already stored.
C9_Cron23AlwaysGenerates ==
    ~(event.type = "passEnd" /\ event.origin = "cron23" /\ event.result = "exists")

\* C10: a checkpoint that reaches generateDailySummary on a day whose last pass
\* failed on all its LLM attempts starts a new pass.
C10_CheckpointRetriesAfterLLMFailure ==
    (/\ event.type = "trigger"
     /\ event.origin = "checkpoint"
     /\ event.result # "late"
     /\ event.day = hist.failDay)
    => event.result = "started"

\* C11: a checkpoint whose load finds a record of its date for en/US that was
\* saved on that date at hour 23 or later (New York) returns without invoking
\* generateDailySummary: no pass starts, the store and the generator's fields
\* stay as they are.
C11_CheckpointSkipsAfterLateRecord ==
    [][\A t \in Running :
         LET s == loadDailySummary(file, t.date, "en", "US").value IN
         (/\ t.pc = "chkLoad"
          /\ event'.type = "trigger"
          /\ event'.origin = "checkpoint"
          /\ CopiesIn(t, tasks') < CopiesIn(t, tasks)
          /\ s # Null /\ s.day = t.date /\ s.late)
         => /\ event'.result = "late"
            /\ PassCountIn(tasks') = PassCountIn(tasks)
            /\ file' = file
            /\ isGenerating' = isGenerating
            /\ lastGenerationDate' = lastGenerationDate]_vars

\* A checkpoint has found a late record and skipped.
C11_Witness ==
    /\ event.type = "trigger"
    /\ event.origin = "checkpoint"
    /\ event.result = "late"
    /\ LET s == loadDailySummary(file, event.day, "en", "US").value IN
       s # Null /\ s.day = event.day /\ s.late

\* C12: a pass never goes on to the LLM with news absent and a finance snapshot
\* that is absent or holds no quote.
C12_NoLLMCallWithoutCoreData ==
    ~(/\ event.type = "collected"
      /\ event.news = "absent"
      /\ event.finance \in {"absent", "noquotes"})

\* C13: the manual path never sends a completion request with news absent and
\* a finance snapshot that is absent or holds no quote, whatever the trends.
C13_ManualNoLLMCallWithoutCoreData ==
    ~(/\ event.type = "manual"
      /\ event.result = "chatSent"
      /\ event.news = "absent"
      /\ event.finance \in {"absent", "noquotes"})

\* A step is an invocation of refreshSummary: it ends at the daily gate or
\* starts an attempt.
isInvocation(e) == e.type = "manual" /\ e.result \in {"limit", "started"}

\* C14: off localhost, an invocation of refreshSummary on the day of a completed
\* successful refresh shows the daily-limit message and changes nothing else
\* (no attempt starts, the store and the page stay as they are); on any other
\* day the invocation passes the gate.
C14_OneManualRefreshPerDay ==
    [][(isInvocation(event') /\ ~browser.localhost /\ browser.successDay # 0)
       => IF browser.successDay = clock.day
          THEN /\ event'.result = "limit"
               /\ event'.notice = "limit"
               /\ tasks' = tasks
               /\ file' = file
               /\ browser' = browser
          ELSE /\ event'.result = "started"
               /\ BagCardinality(tasks') = BagCardinality(tasks) + 1]_vars

\* An invocation has been turned away on the day of a successful refresh.
C14_Witness ==
    /\ event.type = "manual"
    /\ event.result = "limit"
    /\ ~browser.localhost
    /\ browser.successDay = clock.day

\* C15: the manual path never announces success for an attempt that produced
\* no summary text.
C15_AllAttemptsFailedReportsFailure ==
    ~(/\ event.type = "manual"
      /\ event.result = "success"
      /\ event.text = 0)

\* C16: the step in which refreshSummary times out shows the user a message:
\* the display changes or a notification appears.
C16_TimeoutIsReported ==
    [][(event'.type = "manual" /\ event'.result = "timeout")
       => (browser'.display # browser.display \/ event'.notice # "")]_vars

\* C17: a step of an attempt abandoned at the timeout changes neither the
\* store, nor the display, nor the last-refreshed marker.
C17_AbandonedAttemptHasNoEffect ==
    [][(event'.type = "manual" /\ event'.origin = "abandoned")
       => /\ file' = file
          /\ browser'.display = browser.display
          /\ browser'.marker = browser.marker]_vars

\* The last call was one of the two section parsers.
isParseCall ==
    call.fn \in {"parseAutomatedSummarySections", "parseSummarySections"}

\* The four fields of the parser's result, in the order of the headers.
sectionsOf(c) ==
    <<c.sections.news, c.sections.trends, c.sections.finance, c.sections.insights>>

\* The k-th body of a text of Layouts without its surrounding white space.
ExpectedBody(k) == [found |-> TRUE, body |-> <<Words[k], " ", "more">>]

\* C18: on a text with the four headers in order, each in either spelling, and
\* no '---', both parsers return the four bodies, trimmed, in news, trends,
\* finance and insights.
C18_FourSectionsRoundTrip ==
    (/\ isParseCall
     /\ ~call.layout.rules
     /\ \A k \in DOMAIN HeaderNames : call.layout.spelling[k] # "none")
    => \A k \in DOMAIN HeaderNames : sectionsOf(call)[k] = ExpectedBody(k)

\* A text with all four headers, in mixed spellings and after a preamble, has
\* been parsed by the page's parser.
C18_Witness ==
    /\ call.fn = "parseSummarySections"
    /\ ~call.layout.rules
    /\ call.layout.preamble
    /\ call.layout.spelling = <<"bold", "plain", "plain", "bold">>
    /\ \A k \in DOMAIN HeaderNames : sectionsOf(call)[k].found

\* C19: on a text without '---' holding any subset of the headers, each header
\* that is present yields its body (the text up to the next present header or
\* the end) and each missing header yields no field.
C19_PresentHeadersYieldSections ==
    (isParseCall /\ ~call.layout.rules)
    => \A k \in DOMAIN HeaderNames :
         sectionsOf(call)[k] = IF call.layout.spelling[k] = "none"
                               THEN NoSection ELSE ExpectedBody(k)

\* The last call was one of the two market evaluators.
isMarketCall == call.fn \in {"isMarketOpenServer", "isMarketOpen"}

\* C20: on a weekday that is not a holiday, for a symbol that is not crypto,
\* the evaluator answers open exactly from 09:30 up to, not including, 16:00
\* New York time.
C20_OpenExactlyInMarketHours ==
    (/\ isMarketCall
     /\ ~endsWithUSD(call.symbol)
     /\ call.day \in 1..5
     /\ ~call.holiday)
    => LET t == call.etNow.hour * 60 + call.etNow.minute
       IN  call.open <=> (9 * 60 + 30 <= t /\ t < 16 * 60)

\* The page has answered closed at 09:29 on a weekday that is not a holiday,
\* for a symbol that is not crypto.
C20_Witness ==
    /\ call.fn = "isMarketOpen"
    /\ ~endsWithUSD(call.symbol)
    /\ call.day \in 1..5
    /\ ~call.holiday
    /\ call.etNow.hour = 9
    /\ call.etNow.minute = 29
    /\ ~call.open

\* Good Friday of the years of Years, from the calendar.
GoodFridays ==
    {[year |-> 2026, month |-> 3, date |-> 3],
     [year |-> 2027, month |-> 2, date |-> 26]}

\* The instant t falls on a Saturday, a Sunday, December 25, a floating holiday
\* or Good Friday; day is its weekday.
isClosedDay(t, day) ==
    \/ day \in {0, 6}
    \/ (t.month = 11 /\ t.date = 25)
    \/ (t.month = 0 /\ day = 1 /\ t.date \in 15..21)
    \/ (t.month = 1 /\ day = 1 /\ t.date \in 15..21)
    \/ (t.month = 4 /\ day = 1 /\ t.date \in 25..31)
    \/ (t.month = 8 /\ day = 1 /\ t.date \in 1..7)
    \/ (t.month = 10 /\ day = 4 /\ t.date \in 22..28)
    \/ [year |-> t.year, month |-> t.month, date |-> t.date] \in GoodFridays

\* C21: for a symbol that is not crypto the evaluator answers closed at every
\* time of a Saturday, a Sunday, December 25, a floating holiday and Good
\* Friday; for a symbol ending in -USD it answers open at every instant.
C21_ClosedDaysAndCrypto ==
    isMarketCall
    => IF endsWithUSD(call.symbol)
       THEN call.open
       ELSE isClosedDay(call.etNow, call.day) => ~call.open

\* The page has answered closed at 10:30 on Good Friday 2027 for a symbol that
\* is not crypto.
C21_Witness ==
    /\ call.fn = "isMarketOpen"
    /\ ~endsWithUSD(call.symbol)
    /\ [year |-> call.etNow.year, month |-> call.etNow.month,
        date |-> call.etNow.date] \in GoodFridays
    /\ call.etNow.hour = 10
    /\ call.etNow.minute = 30
    /\ ~call.open

\* C22: a response to a list of symbols is sent after every fetch has settled,
\* has status 200, and holds one entry per requested symbol and no other: a
\* quote where a fetch of the symbol gave a quote, an error marker where one
\* failed.
C22_OneEntryPerRequestedSymbol ==
    (call.fn = "bulk" /\ call.status \notin {0, 400})
    => /\ call.status = 200
       /\ call.pending = {}
       /\ {p[1] : p \in call.body} = {call.symbols[i] : i \in DOMAIN call.symbols}
       /\ \A p \in call.body :
            \E j \in DOMAIN call.symbols :
               /\ call.symbols[j] = p[1]
               /\ p[2] = IF call.outcome[j] = "quote" THEN "quote" ELSE "error"
       /\ \A p, q \in call.body : p[1] = q[1] => p = q

\* The entry the listing owes to a record stored under a date.
owedEntry(d, rec) ==
    [date |-> d, day |-> rec.day, late |-> rec.late,
     language |-> IF rec.language = "" /\ rec.country = "" THEN "en" ELSE rec.language,
     country |-> IF rec.language = "" /\ rec.country = "" THEN "US" ELSE rec.country,
     automated |-> rec.automated]

\* C23: the history listing answers with success; for each date key of the
\* archive it holds one entry per stored record, a legacy untagged record
\* listed as (en, US); it holds no entry for another key; and it is the empty
\* list when the archive is missing, empty or corrupt.
C23_HistoryListsEveryDatedRecord ==
    event.type = "history"
    => LET S == call.summaries
           recsOf(d) == IF file.kind = "json" THEN file.data[d].recs ELSE << >>
       IN  /\ call.status = 200 /\ call.success
           /\ \A i \in DOMAIN S : S[i].date \in Days
           /\ \A d \in Days :
                LET at == {i \in DOMAIN S : S[i].date = d}
                IN  /\ Cardinality(at) = Len(recsOf(d))
                    /\ {S[i] : i \in at}
                         = {owedEntry(d, recsOf(d)[j]) : j \in DOMAIN recsOf(d)}
           /\ \A i, j \in DOMAIN S : i < j => S[i].date >= S[j].date

\* A listing has been answered from an archive that holds a legacy record, a
\* tagged record under a date, and records under keys that are not dates.
C23_Witness ==
    /\ event.type = "history"
    /\ file.kind = "json"
    /\ OtherKeys \subseteq DOMAIN file.data
    /\ Len(call.summaries) >= 2
    /\ \E d \in Days : \E j \in DOMAIN file.data[d].recs :
         file.data[d].recs[j].language = ""
    /\ \E d \in Days : \E j \in DOMAIN file.data[d].recs :
         file.data[d].recs[j].language # ""

\* C24: the bucket a save has just written is an array of records.
C24_SavedBucketIsList ==
    (event.result = "saved" /\ event.saved.date \in Days)
    => file.data[event.saved.date].shape = "arr"

\* C25: a request to an admin endpoint whose connection comes from an address
\* that, without its ::ffff: prefix, is not in the allow-list is answered with
\* 403 and changes neither the orchestrator's state, nor the handlers in
\* flight, nor the store.
C25_OutsidersAreDenied ==
    [][(event'.remote # NoAddress
        /\ [event'.remote EXCEPT !.mapped = FALSE] \notin ADMIN_IPS)
       => /\ event'.result = "403"
          /\ tasks' = tasks
          /\ isGenerating' = isGenerating
          /\ lastGenerationDate' = lastGenerationDate
          /\ file' = file]_vars

\* C26: a completion call of generateAutomatedSummary is the first, second or
\* third of its pass; when it is answered, either its content is returned (and
\* the pass goes on to save it or rejects it), or another call follows, which
\* happens only after the first and the second, or the pass ends with the null
\* sentinel, which happens only after the third.
C26_AtMostThreeCompletionCalls ==
    [][\A t \in Running :
         (t.pc = "genLLM" /\ CopiesIn(t, tasks') < CopiesIn(t, tasks))
         => /\ t.attempt \in 1..3
            /\ \/ \E u \in BagToSet(tasks') :
                    /\ u.content > 0
                    /\ u = [t EXCEPT !.pc = "saveRead", !.content = u.content]
               \/ /\ event'.type = "passEnd"
                  /\ event'.result = "invalid"
               \/ /\ t.attempt < 3
                  /\ [t EXCEPT !.attempt = t.attempt + 1] \in BagToSet(tasks')
               \/ /\ t.attempt = 3
                  /\ event'.type = "passEnd"
                  /\ event'.result = "llmfail"
                  /\ \A u \in BagToSet(tasks') : u.caller # "gen"]_vars

\* A pass has ended with the null sentinel.
C26_Witness ==
    /\ event.type = "passEnd"
    /\ event.result = "llmfail"
    /\ \A t \in Running : t.caller # "gen"

\* C27: when a completion call of the automated path fails and another call
\* follows, that call names the next model of the deduplicated fallback list
\* that starts with the requested model, not the model that just failed.
C27_AutomatedPathFallsBackToNextModel ==
    [][\A t \in Running : \A u \in BagToSet(tasks') :
         (/\ t.pc = "genLLM"
          /\ u.pc = "genLLM"
          /\ u.attempt = t.attempt + 1
          /\ CopiesIn(t, tasks') < CopiesIn(t, tasks))
         => /\ u.model # t.model
            /\ u.model = (<<"z-ai/glm-4.5-air:free">> \o FallbackList)[u.attempt]]_vars

\* C28: callOpenRouterWithRetry calls the models of the deduplicated list in
\* order, the requested model first and a new model at each attempt, and when
\* it fails for good every model of that list has been called.
C28_FailsOnlyAfterEveryModel ==
    (call.fn = "chat" /\ call.tried # << >>)
    => LET list == IF \E i \in DOMAIN FallbackList : FallbackList[i] = call.model
                   THEN <<call.model>>
                        \o SelectSeq(FallbackList, LAMBDA m : m # call.model)
                   ELSE <<call.model>> \o FallbackList
       IN  /\ Len(call.tried) <= Len(list)
           /\ call.tried = SubSeq(list, 1, Len(call.tried))
           /\ (call.status = 500 /\ call.lastError # "" /\ call.reply = call.lastError)
              => Len(call.tried) = Len(list)

C30_TrendsRetriedThenOptional ==
    (event.type = "collected" \/ (event.type = "passEnd" /\ event.result = "insufficient"))
    => LET n == Len(event.responses)
       IN  /\ n \in 1..3
           /\ \A i \in 1..(n - 1) : event.responses[i] \in {"notok", "empty", "throws"}
           /\ event.responses[n] = "topics" => event.trends = "some"
           /\ event.responses[n] # "topics" => (n = 3 /\ event.trends = "absent")
           /\ (event.news # "absent" \/ event.finance # "absent")
              => /\ event.type = "collected"
                 /\ \E t \in Running :
                      /\ t.pc = "genLLM" /\ t.attempt = 1
                      /\ t.date = event.day /\ t.origin = event.origin

\* Three requests have failed, each in another way, finance data is there and
\* the pass is at its first completion call.
C30_Witness ==
    /\ event.type = "collected"
    /\ event.responses = <<"notok", "empty", "throws">>
    /\ event.trends = "absent"
    /\ event.news = "absent" /\ event.finance = "quotes"
    /\ \E t \in Running : t.pc = "genLLM" /\ t.attempt = 1

\* C31: whatever the three upstream endpoints answer, no collector throws, the
\* bundle is returned, and each of its fields depends on the answer of its own
\* endpoint only: news is there exactly for a list of articles, finance is an
\* object exactly for a parsed object of entries, trends are there exactly when
\* one of the three answers had topics.
C31_CollectorsNeverThrow ==
    call.fn = "collectAutomatedSectionData"
    => /\ ~call.newsThrew /\ ~call.financeThrew
       /\ call.data.bundle
       /\ call.data.news = (IF call.newsUp = "articles" THEN "some" ELSE "absent")
       /\ call.data.finance = (CASE call.financeUp = "quotes" -> "quotes"
                                 [] call.financeUp = "allerrors" -> "noquotes"
                                 [] OTHER -> "absent")
       /\ call.data.trends = (IF \E i \in 1..3 : call.answers[i] = "topics"
                              THEN "some" ELSE "absent")

\* The news body was not JSON and the finance fetch was rejected, while the
\* second trends request was answered with topics: the bundle holds the trends.
C31_Witness ==
    /\ call.fn = "collectAutomatedSectionData"
    /\ call.newsUp = "unparsable" /\ call.financeUp = "network"
    /\ call.answers = <<"throws", "topics", "notok">>
    /\ call.data = [bundle |-> TRUE, news |-> "absent", trends |-> "some",
                    finance |-> "absent"]

isPromptCall == call.fn \in {"createAutomatedAnalysisPrompt", "createAnalysisPrompt"}

\* C32: whatever the bundle holds, the closing instructions of a built prompt
\* request the four sections NEWS HIGHLIGHTS, TRENDING TOPICS, MARKET OVERVIEW
\* and INFO GENIE.
C32_PromptRequestsFourSections ==
    isPromptCall
    => call.prompt.requested =
         <<"NEWS HIGHLIGHTS", "TRENDING TOPICS", "MARKET OVERVIEW", "INFO GENIE">>

\* C33: the market part of a prompt built while it is a weekend in New York
\* lists the crypto quotes of the bundle and no index or equity quote; built on
\* a weekday, market open or closed, it lists the index, every equity and every
\* crypto quote of the bundle.
C33_MarketPartFollowsState ==
    (isPromptCall /\ call.sectionData.finance.present)
    => LET finance == call.sectionData.finance
           day == getDay(call.etNow.year, call.etNow.month, call.etNow.date)
       IN  IF day \in {0, 6}
           THEN /\ call.prompt.market.form = "weekend"
                /\ ~call.prompt.market.index
                /\ call.prompt.market.equities = {}
                /\ call.prompt.market.crypto = finance.crypto
           ELSE /\ call.prompt.market.form # "weekend"
                /\ call.prompt.market.index = finance.nasdaq
                /\ call.prompt.market.equities = finance.techStocks
                /\ call.prompt.market.crypto = finance.crypto

\* C34: a text with some of its headers in mixed case ('Info Genie:', 'News
\* Highlights:') is parsed into the same sections as the text with these
\* headers in upper case.
C34_HeadersInAnyCase ==
    (call.fn \in {"parseAutomatedSummarySections", "parseSummarySections"})
    => call.sections = call.upper

\* C35: for a completion that lacks one or more of the four headers, the record
\* handed to saveDailySummary has the empty string in the field of each missing
\* section and the section's text in the field of each section that is there.
C35_MissingSectionsSavedEmpty ==
    (/\ call.fn = "generateSummaryForRegion"
     /\ \E k \in DOMAIN HeaderNames : call.layout.spelling[k] = "none")
    => LET fields == <<call.summaryData.news, call.summaryData.trends,
                       call.summaryData.finance, call.summaryData.overall>>
       IN  \A k \in DOMAIN HeaderNames :
             fields[k] = IF call.layout.spelling[k] = "none"
                         THEN << >> ELSE <<Words[k], " ", "more">>

\* C36: whenever lastGenerationDate is a date d, the store holds a record for
\* (d, en, US): a pass that was skipped for insufficient data, or whose LLM
\* call or save failed, does not set the memo.
C36_MemoImpliesRecord ==
    lastGenerationDate # 0
    => \E k \in 1..Len(persisted[lastGenerationDate].recs) :
         regionOf(persisted[lastGenerationDate].recs[k]) = <<"en", "US">>

\* C37: isGenerating is true exactly while a generateDailySummary pass is in
\* flight: it is false again when the pass has ended, whatever its outcome, and
\* a trigger is dropped as busy only while a pass is in flight.
C37_FlagOnlyDuringPass ==
    /\ isGenerating <=> PassCount > 0
    /\ (event.type = "trigger" /\ event.result = "busy") => PassCount > 0

\* A pass has ended without a record (its three completion calls failed), the
\* flag is false, and a later trigger was not dropped as busy.
C37_Witness ==
    /\ hist.failDay # 0
    /\ ~isGenerating
    /\ PassCount = 0
    /\ event.type = "trigger" /\ event.result \in {"memo", "started", "late"}

\* C38: of the refreshSummary invocations of one day that are in flight
\* together, at most one has sent a request to the LLM or a save request.
C38_OneOfTwoRefreshesGenerates ==
    clock.day = 1
    => LET generating == {t \in Running :
                            /\ t.caller = "manual"
                            /\ t.pc \in {"chat", "delay", "saving", "listing",
                                         "relisting"}}
       IN  BagCardinality([t \in generating |-> tasks[t]]) <= 1

\* C39: the marker lastSummaryRefreshDate changes only at the end of an attempt
\* that generated a summary text and whose record is in the store, and then it
\* becomes today; a failed attempt and an invocation the gate rejected leave it
\* as it was.
C39_MarkerOnlyAfterSavedSummary ==
    [][browser'.marker # browser.marker
       => /\ browser'.marker = clock.day
          /\ \E t \in Running :
               /\ t.caller = "manual"
               /\ CopiesIn(t, tasks') < CopiesIn(t, tasks)
               /\ t.content > 0
               /\ \E x \in RecordsOf(persisted) : x.content = t.content]_vars

====
